---- MODULE Spec2Model ----
(***************************************************************************)
(* Model of the careers application of jayarama-associates-profile:        *)
(* job postings and their counters, application intake (full form and      *)
(* quick apply), the application event log, status changes, job-alert      *)
(* subscriptions and the inbound webhooks.                                 *)
(*                                                                         *)
(* Time is a small integer clock.  An optional timestamp (a nullable       *)
(* DateTimeField) is a sequence: <<>> for NULL, <<t>> for the instant t.   *)
(* An e-mail address is a sequence of characters, so that lower() and      *)
(* __iexact are computed character by character.  conversion_rate is held  *)
(* in hundredths, as DecimalField(max_digits=5, decimal_places=2) stores   *)
(* it.                                                                     *)
(***************************************************************************)
EXTENDS Integers, Sequences, FiniteSets, TLC

VARIABLES
    now,            \* timezone.now(), the wall clock
    jobs,           \* JobOpening rows: pk -> record
    applications,   \* JobApplication rows, in insertion order (pk = index)
    event_logs,     \* ApplicationEventLog rows, in insertion order (pk = index)
    subscriptions,  \* JobAlertSubscription rows, in insertion order
    request,        \* the last webhook request received
    response,       \* the response to the last request handled
    probe,          \* the last evaluation of JobOpening.is_active
    inflight,       \* requests being handled concurrently: what each has loaded
    cache           \* django.core.cache: key -> None, or <<value>> when set

vars ==
    <<now, jobs, applications, event_logs, subscriptions, request, response, probe, inflight,
      cache>>

(***************************************************************************)
(* Bounds of the model.                                                    *)
(***************************************************************************)
MaxTime == 1
MaxApps == 2
MaxSubs == 2
MaxVacancy == 2

Times == 0..MaxTime
None == <<>>
OptTimes == {None} \cup {<<t>> : t \in Times}

JobIds == {1}

(***************************************************************************)
(* E-mail addresses and case folding.                                      *)
(***************************************************************************)
Emails == {<<"a">>, <<"A">>, <<"b">>}

LowerChar(c) == CASE c = "A" -> "a"
                  [] c = "B" -> "b"
                  [] OTHER -> c

\* str.lower()
Lower(s) == [i \in DOMAIN s |-> LowerChar(s[i])]

\* the ORM lookup email__iexact
iexact(a, b) == Lower(a) = Lower(b)

(***************************************************************************)
(* models.py: JobOpening                                                   *)
(***************************************************************************)
JOB_STATUS_CHOICES == {"draft", "review", "open", "paused", "closed", "archived"}

\* A posting as the admin creates it: counters at their defaults.
NewJob(status, published, deadline, vacancy) ==
    [status |-> status, published_date |-> published,
     application_deadline |-> deadline, vacancy_count |-> vacancy,
     views_count |-> 0, applications_count |-> 0, conversion_rate |-> 0]

\* JobOpening.is_active, with its three early returns
is_active_wrong_deadline(job, t) ==
    IF job.status # "open" THEN FALSE
    ELSE IF job.application_deadline # None /\ job.application_deadline[1] <= t THEN FALSE
    ELSE IF job.vacancy_count <= 0 THEN FALSE
    ELSE TRUE

is_active(job, t) ==
    IF job.status # "open" THEN FALSE
    ELSE IF job.application_deadline # None /\ job.application_deadline[1] < t THEN FALSE
    ELSE IF job.vacancy_count <= 0 THEN FALSE
    ELSE TRUE

\* JobOpening.increment_views
increment_views(job) == [job EXCEPT !.views_count = @ + 1]

\* JobOpening.increment_applications
increment_applications(job) == [job EXCEPT !.applications_count = @ + 1]

\* Decimal(applications) / Decimal(views) * 100 quantized to two places
\* (ROUND_HALF_EVEN), in hundredths
QuantizedRate(apps, views) ==
    LET n == apps * 10000
        q == n \div views
        r == n % views
    IN  IF 2 * r > views THEN q + 1
        ELSE IF 2 * r < views THEN q
        ELSE IF q % 2 = 0 THEN q ELSE q + 1

\* largest value of DecimalField(max_digits=5, decimal_places=2), in hundredths
MaxRate == 99999

\* JobOpening.calculate_conversion_rate: TRUE when the save raises
\* decimal.InvalidOperation (the value does not fit max_digits)
conversion_rate_raises(job) ==
    job.views_count > 0 /\ QuantizedRate(job.applications_count, job.views_count) > MaxRate

calculate_conversion_rate(job) ==
    IF job.views_count > 0 /\ ~conversion_rate_raises(job)
    THEN [job EXCEPT !.conversion_rate = QuantizedRate(job.applications_count, job.views_count)]
    ELSE job

(***************************************************************************)
(* models.py: JobApplication and ApplicationEventLog                       *)
(***************************************************************************)
APPLICATION_STATUS_CHOICES ==
    {"applied", "reviewed", "shortlisted", "phone_screen", "assessment",
     "interview_1", "interview_2", "interview_3", "background_check",
     "offer_pending", "offer_extended", "accepted", "rejected", "withdrawn",
     "on_hold"}

\* a JobApplication row as save() inserts it (status and status_changed_at
\* take their defaults)
NewApplication(job_id, email, source, t) ==
    [job |-> job_id, email |-> email, status |-> "applied",
     status_changed_at |-> t, status_notes |-> "", source |-> source]

\* ApplicationEventLog.objects.create(...); created_at is auto_now_add
NewEventLog(app_id, event_type, description, t) ==
    [application |-> app_id, event_type |-> event_type,
     description |-> description, created_at |-> t]

\* the primary keys of the rows a table holds.  A row's place in the sequence
\* is its primary key; a deleted row leaves None at its place, because an
\* AutoField never gives the key of a deleted row to a later one
Stored(rows) == {i \in DOMAIN rows : rows[i] # None}

\* ApplicationEventLog.objects.create: the application column is NOT NULL, so
\* a row without an application (id 0) raises IntegrityError and is not stored
NoApplication == 0

create_raises(row) == row.application = NoApplication

objects_create(logs, row) == IF create_raises(row) THEN logs ELSE Append(logs, row)

\* unique_together = ['email', 'job'] as the store enforces it (exact match)
unique_together_violated(apps, job_id, email) ==
    \E i \in Stored(apps) : apps[i].job = job_id /\ apps[i].email = email

\* JobApplication.update_status
update_status_keeps_notes(app, new_status, notes, t) ==
    [app EXCEPT !.status = new_status, !.status_changed_at = t]

update_status(app, new_status, notes, t) ==
    [app EXCEPT !.status = new_status, !.status_notes = notes,
                !.status_changed_at = t]

(***************************************************************************)
(* forms.py                                                                *)
(***************************************************************************)
\* AdvancedJobApplicationForm.clean_email.  instance_job is the job of
\* form.instance: None while the instance has no job yet.
clean_email(instance_job, email, apps) ==
    IF instance_job # None
       /\ \E i \in Stored(apps) : apps[i].job = instance_job[1] /\ iexact(apps[i].email, email)
    THEN [valid |-> FALSE, errors |-> {"already_applied"}, email |-> email]
    ELSE [valid |-> TRUE, errors |-> {}, email |-> Lower(email)]

(***************************************************************************)
(* views.py: responses.  A response names the view, the HTTP status and    *)
(* the outcome, and records what the request met: whether an application   *)
(* for the same job and the same address ignoring case was already stored, *)
(* which application it created, and what became of the e-mails.           *)
(***************************************************************************)
NoResponse == [view |-> "none", status |-> 0, outcome |-> "none"]

NoRequest == [view |-> "none", method |-> "none"]

NoProbe == [op |-> "none"]

NoInflight == <<>>

\* views.py CACHE_KEYS; an empty cache holds no key
CACHE_KEYS == {"featured_jobs", "job_categories", "job_stats", "recent_jobs"}

NoCache == [key \in CACHE_KEYS |-> None]

IntakeResponse(view, status, outcome, errors, dup, app_id, confirmation, admin) ==
    [view |-> view, status |-> status, outcome |-> outcome, errors |-> errors,
     duplicate |-> dup, application |-> app_id,
     confirmation_email |-> confirmation, admin_notification |-> admin]

Rejected(view, status, outcome, errors, dup) ==
    IntakeResponse(view, status, outcome, errors, dup, 0, "none", "none")

AlreadyApplied(apps, job_id, email) ==
    \E i \in Stored(apps) : apps[i].job = job_id /\ iexact(apps[i].email, email)

ApplicationsOf(apps, job_id) == {i \in Stored(apps) : apps[i].job = job_id}

LogsOf(logs, app_id) == {k \in DOMAIN logs : logs[k].application = app_id}

(***************************************************************************)
(* views.py: requests in flight.  The public views run in autocommit       *)
(* (settings.py sets no ATOMIC_REQUESTS): a request loads a row into an    *)
(* instance (DetailView.get_object, or get_object_or_404 in dispatch) and  *)
(* later writes back from that instance, and other requests run between    *)
(* its statements.  inflight[r] is the position of request r and what the  *)
(* request holds in memory.                                                *)
(***************************************************************************)
Waiting == [pc |-> "waiting"]

\* Model.save(update_fields=fields): the named columns take the instance's values
save_update_fields(stored, instance, fields) ==
    [f \in DOMAIN stored |-> IF f \in fields THEN instance[f] ELSE stored[f]]

\* dispatch: the reason the request is turned away, "ok" when it goes on
dispatch(job, t) ==
    IF job.status # "open" THEN "not_found"
    ELSE IF job.published_date # None /\ job.published_date[1] > t THEN "not_published"
    ELSE IF job.application_deadline # None /\ job.application_deadline[1] < t
         THEN "deadline_passed"
    ELSE IF job.vacancy_count <= 0 THEN "no_vacancy"
    ELSE "ok"

\* the view a kind of request belongs to
view_of(kind) ==
    CASE kind = "quick" -> "quick_apply"
      [] kind = "apply" -> "apply"
      [] kind = "view" -> "job_detail"

\* request r reads the posting.  DetailView.get_object loads a posting of
\* any status; JobApplicationCreateView.dispatch loads it with
\* get_object_or_404(JobOpening, pk=job_id, status='open') (Http404 ends the
\* request) and redirects when a later condition of dispatch fails;
\* QuickApplyView.post loads it with the same get_object_or_404 and checks
\* nothing else.  A posting that was deleted is not found by any of them
get_object(r, kind, j) ==
    LET gate == IF jobs[j] = None THEN "not_found"
                ELSE IF kind = "apply" THEN dispatch(jobs[j], now)
                ELSE IF kind = "quick" /\ jobs[j].status # "open" THEN "not_found"
                ELSE "ok"
    IN  /\ inflight[r].pc = "waiting"
        /\ IF gate = "ok"
           THEN /\ inflight' = [inflight EXCEPT ![r] = [pc |-> "loaded", kind |-> kind,
                                                        job |-> j, instance |-> jobs[j]]]
                /\ UNCHANGED response
           ELSE /\ inflight' = [inflight EXCEPT ![r] = [pc |-> "refused", kind |-> kind,
                                                        job |-> j, instance |-> jobs[j]]]
                /\ response' = Rejected(view_of(kind),
                                        IF gate = "not_found" THEN 404 ELSE 302,
                                        gate, {}, FALSE)
        /\ UNCHANGED <<now, jobs, applications, event_logs, subscriptions, request, probe,
                       cache>>

(***************************************************************************)
(* views.py: JobDetailView.get                                             *)
(***************************************************************************)
\* after the read: self.object.increment_views().  When the row is gone
\* save(update_fields) raises DatabaseError, which the handler around the
\* call logs
JobDetailView_increment_views(r) ==
    LET req == inflight[r]
        instance == increment_views(req.instance)
    IN  /\ req.pc = "loaded" /\ req.kind = "view"
        /\ jobs' = IF jobs[req.job] = None THEN jobs
                   ELSE [jobs EXCEPT ![req.job] =
                            save_update_fields(@, instance, {"views_count"})]
        /\ inflight' = [inflight EXCEPT ![r] = [pc |-> "done", kind |-> req.kind,
                                                job |-> req.job, instance |-> instance]]
        /\ response' = [view |-> "job_detail", status |-> 200, outcome |-> "ok"]
        /\ UNCHANGED <<now, applications, event_logs, subscriptions, request, probe, cache>>

(***************************************************************************)
(* views.py: JobApplicationCreateView                                      *)
(***************************************************************************)
\* settings.CAREER_ADMIN_EMAILS or the addresses of settings.ADMINS.
\* settings.py sets neither (the empty set); a deployment may set one
ADMIN_EMAILS == {}

AdminEmailSettings == {ADMIN_EMAILS, {<<"h", "r">>}}

\* send_confirmation_email: email.send() inside try/except, and the log it
\* leaves: confirmation_sent after the send, confirmation_failed from the
\* handler when the send raised
send_confirmation_email(logs, app_id, mail_ok, t) ==
    objects_create(logs, NewEventLog(app_id, "email_sent",
                                     IF mail_ok THEN "confirmation_sent"
                                     ELSE "confirmation_failed", t))

\* send_admin_notification: returns early without recipients; the send is
\* fail_silently inside try/except
send_admin_notification(admin_emails, mail_ok) ==
    IF admin_emails = {} THEN "skipped"
    ELSE IF mail_ok THEN "sent" ELSE "failed"

\* form_valid (transaction.atomic) on self.job, the instance dispatch
\* loaded: the store after it, the instance and the response.  The clock is
\* t at application.save(), t1 when the submission is logged and t2 when the
\* confirmation is logged.  A save() that raises inside the block marks the
\* transaction for rollback: the statements that follow in the block raise
\* TransactionManagementError, which the handlers around the log writes
\* swallow, the e-mails go out all the same, and leaving the block rolls
\* back the application, the log and the counter.  So does the save() of
\* increment_applications when the posting was deleted since dispatch
\* (save(update_fields) raises DatabaseError when no row is updated).  The
\* session write at the end loads the session of a request that carries a session cookie; in the
\* marked transaction that raises too, and the request ends as a fault.
form_valid(instance, j, email, dup, mail_ok, admin, session, t, t1, t2) ==
    LET app_id == Len(applications) + 1
        saved == Append(applications, NewApplication(j, email, "career_site", t))
        logged == objects_create(event_logs,
                                 NewEventLog(app_id, "status_change", "submitted", t1))
        counted == increment_applications(instance)
        rated == calculate_conversion_rate(counted)
        written == {"applications_count"} \cup
                      (IF counted.views_count > 0 THEN {"conversion_rate"} ELSE {})
        mailed == send_confirmation_email(logged, app_id, mail_ok, t2)
        confirmation == IF mail_ok THEN "sent" ELSE "failed"
        unchanged == [jobs |-> jobs, applications |-> applications, event_logs |-> event_logs]
    IN  IF unique_together_violated(applications, j, email)
        THEN unchanged @@ [instance |-> instance,
                           response |-> Rejected("apply", 500, "IntegrityError", {}, dup)]
        ELSE IF jobs[j] = None \/ conversion_rate_raises(counted)
        THEN unchanged @@
             [instance |-> counted,
              response |-> IF session
                           THEN IntakeResponse("apply", 500, "TransactionManagementError", {},
                                               dup, 0, confirmation, admin)
                           ELSE IntakeResponse("apply", 302, "success", {}, dup, app_id,
                                               confirmation, admin)]
        ELSE [jobs |-> [jobs EXCEPT ![j] = save_update_fields(@, rated, written)],
              applications |-> saved,
              event_logs |-> mailed,
              instance |-> rated,
              response |-> IntakeResponse("apply", 302, "success", {}, dup, app_id,
                                          confirmation, admin)]

\* POST to the full application form, after dispatch let it through.
\* admin_emails is the setting, admin_ok and mail_ok whether the sends go
\* through, session whether the request carries a session cookie; d1 and d2
\* are the time that passes between the clock readings of form_valid
JobApplicationCreateView_post(r, email, fields_ok, mail_ok, admin_emails, admin_ok, session, d1, d2) ==
    LET req == inflight[r]
        dup == AlreadyApplied(applications, req.job, email)
        cleaned == clean_email(None, email, applications)
        out == form_valid(req.instance, req.job, cleaned.email, dup, mail_ok,
                          send_admin_notification(admin_emails, admin_ok), session,
                          now, now + d1, now + d1 + d2)
        stored == Len(out.applications) > Len(applications)
    IN  /\ req.pc = "loaded" /\ req.kind = "apply"
        /\ now + d1 + d2 <= MaxTime
        /\ IF ~cleaned.valid \/ ~fields_ok
           THEN /\ d1 = 0 /\ d2 = 0
                /\ response' = Rejected("apply", 200, "form_invalid",
                                        cleaned.errors \cup
                                            (IF fields_ok THEN {} ELSE {"other_field"}),
                                        dup)
                /\ inflight' = [inflight EXCEPT ![r] = [req EXCEPT !.pc = "refused"]]
                /\ UNCHANGED <<now, jobs, applications, event_logs>>
           ELSE /\ out.response.outcome = "IntegrityError" => (d1 = 0 /\ d2 = 0)
                /\ jobs' = out.jobs
                /\ applications' = out.applications
                /\ event_logs' = out.event_logs
                /\ response' = out.response
                /\ inflight' = [inflight EXCEPT ![r] =
                                   [pc |-> IF stored THEN "done" ELSE "refused",
                                    kind |-> req.kind, job |-> req.job,
                                    instance |-> out.instance]]
                /\ now' = now + d1 + d2
        /\ UNCHANGED <<subscriptions, request, probe, cache>>

(***************************************************************************)
(* views.py: QuickApplyView.post                                           *)
(***************************************************************************)
\* after get_object_or_404 found the posting open: form.is_valid(), then
\* application.save() in autocommit on the posting the request holds, at
\* the clock of the INSERT, then send_mail (fail_silently, inside try).  The
\* INSERT raises IntegrityError on a stored application with the same email
\* and job, and at its COMMIT when the posting was deleted meanwhile
QuickApplyView_post(r, email, fields_ok, mail_ok) ==
    LET req == inflight[r]
        j == req.job
        dup == AlreadyApplied(applications, j, email)
        app_id == Len(applications) + 1
        ended(pc) == [inflight EXCEPT ![r] = [req EXCEPT !.pc = pc]]
    IN  /\ req.pc = "loaded" /\ req.kind = "quick"
        /\ IF ~fields_ok
           THEN /\ response' = Rejected("quick_apply", 400, "form_invalid", {"other_field"}, dup)
                /\ inflight' = ended("refused")
                /\ UNCHANGED applications
           ELSE IF unique_together_violated(applications, j, email) \/ jobs[j] = None
           THEN /\ response' = Rejected("quick_apply", 500, "IntegrityError", {}, dup)
                /\ inflight' = ended("refused")
                /\ UNCHANGED applications
           ELSE /\ applications' = Append(applications,
                                          NewApplication(j, email, "quick_apply", now))
                /\ inflight' = ended("done")
                /\ response' = IntakeResponse("quick_apply", 200, "success", {}, dup, app_id,
                                              IF mail_ok THEN "sent" ELSE "failed", "none")
        /\ UNCHANGED <<now, jobs, event_logs, subscriptions, request, probe, cache>>

\* the wall clock advances
Tick ==
    /\ now < MaxTime
    /\ now' = now + 1
    /\ UNCHANGED <<jobs, applications, event_logs, subscriptions, request, response, probe,
                   inflight, cache>>

(***************************************************************************)
(* Status changes: JobApplication.update_status and the bulk actions of    *)
(* JobApplicationAdmin (queryset.update on the selected rows).             *)
(***************************************************************************)
StatusInputs == {"reviewed", "withdrawn"}
NotesInputs == {"", "note"}

JobApplication_update_status(a, new_status, notes) ==
    /\ a \in Stored(applications)
    /\ applications' = [applications EXCEPT ![a] = update_status(@, new_status, notes, now)]
    /\ response' = NoResponse
    /\ UNCHANGED <<now, jobs, event_logs, subscriptions, request, probe, inflight, cache>>

\* queryset.update(status=value): only the status column of the selected rows
queryset_update_status(apps, selected, value) ==
    [i \in DOMAIN apps |-> IF i \in selected THEN [apps[i] EXCEPT !.status = value]
                           ELSE apps[i]]

AdminAction(selected, value, name) ==
    /\ selected # {}
    /\ selected \subseteq Stored(applications)
    /\ applications' = queryset_update_status(applications, selected, value)
    /\ response' = [view |-> name, status |-> 302, outcome |-> "ok"]
    /\ UNCHANGED <<now, jobs, event_logs, subscriptions, request, probe, inflight, cache>>

mark_as_shortlisted(selected) == AdminAction(selected, "shortlisted", "mark_as_shortlisted")

mark_as_rejected(selected) == AdminAction(selected, "rejected", "mark_as_rejected")

schedule_interview(selected) ==
    AdminAction(selected, "interview_scheduled", "schedule_interview")

(***************************************************************************)
(* admin.py: the add, change and delete views of JobApplicationAdmin.  The *)
(* class names no form and overrides no permission: ModelAdmin builds a    *)
(* ModelForm of the fieldsets, where job, status, source, email and        *)
(* status_notes are editable and status_changed_at is read-only, and       *)
(* save_model calls JobApplication.save().  The user is a superuser.       *)
(***************************************************************************)
\* the statuses typed into the form: two declared ones and one that is not
AdminStatusInputs == StatusInputs \cup {"hired"}

\* JobApplication.SOURCE_CHOICES
SOURCE_CHOICES ==
    {"career_site", "linkedin", "indeed", "glassdoor", "referral", "agency", "campus",
     "social_media", "other"}

\* the sources posted with the form: the one the site stores and the one
\* QuickApplyView stores, which is not declared
AdminSourceInputs == {"career_site", "quick_apply"}

\* ModelForm validation of the admin form: status and source are among their
\* choices and validate_unique finds no other row with the same email and job
admin_form_errors(apps, pk, job_id, email, status, source) ==
    (IF status \in APPLICATION_STATUS_CHOICES /\ source \in SOURCE_CHOICES
     THEN {} ELSE {"invalid_choice"})
    \cup (IF \E i \in Stored(apps) \ {pk} : apps[i].job = job_id /\ apps[i].email = email
          THEN {"unique_together"} ELSE {})

AdminFormResponse(view, errors) ==
    [view |-> view, status |-> IF errors = {} THEN 302 ELSE 200,
     outcome |-> IF errors = {} THEN "ok" ELSE "form_invalid", errors |-> errors]

\* the inline formset saved after the form (ModelAdmin.save_related): the
\* rows whose DELETE box is ticked are deleted
delete_ticked(rows, ticked) ==
    LET F[k \in 0..Len(rows)] ==
            IF k = 0 THEN <<>>
            ELSE IF k \in ticked THEN F[k - 1] ELSE Append(F[k - 1], rows[k])
    IN  F[Len(rows)]

\* the DELETE boxes ticked on the ApplicationEventLogInline of application a:
\* none, or every row
TickedLogs(logs, a) == {{}, LogsOf(logs, a)}

\* POST to the change form of application a: the row takes the posted
\* values and the ticked rows of ApplicationEventLogInline are deleted;
\* nothing stamps status_changed_at, writes the event log or touches a
\* counter
JobApplicationAdmin_change(a, job_id, email, status, notes, source, ticked) ==
    LET errors == admin_form_errors(applications, a, job_id, email, status, source)
    IN  /\ a \in Stored(applications)
        /\ ticked \in TickedLogs(event_logs, a)
        /\ response' = AdminFormResponse("application_change", errors)
        /\ IF errors = {}
           THEN /\ applications' =
                      [applications EXCEPT ![a] = [@ EXCEPT !.job = job_id, !.email = email,
                                                          !.status = status,
                                                          !.status_notes = notes,
                                                          !.source = source]]
                /\ event_logs' = delete_ticked(event_logs, ticked)
           ELSE UNCHANGED <<applications, event_logs>>
        /\ UNCHANGED <<now, jobs, subscriptions, request, probe, inflight, cache>>

\* POST to the add form: a row is inserted with the posted status, notes
\* and source; status_changed_at is auto_now_add
JobApplicationAdmin_add(job_id, email, status, notes, source) ==
    LET errors == admin_form_errors(applications, 0, job_id, email, status, source)
    IN  /\ Len(applications) < MaxApps
        /\ response' = AdminFormResponse("application_add", errors)
        /\ applications' =
              IF errors = {}
              THEN Append(applications,
                          [NewApplication(job_id, email, source, now)
                              EXCEPT !.status = status, !.status_notes = notes])
              ELSE applications
        /\ UNCHANGED <<now, jobs, event_logs, subscriptions, request, probe, inflight,
                       cache>>

\* Collector.delete for the selected applications: their event-log rows go
\* with them (on_delete=CASCADE)
delete_applications(apps, logs, selected) ==
    [applications |-> [i \in DOMAIN apps |-> IF i \in selected THEN None ELSE apps[i]],
     event_logs |-> LET F[k \in 0..Len(logs)] ==
                            IF k = 0 THEN <<>>
                            ELSE IF logs[k].application \in selected THEN F[k - 1]
                            ELSE Append(F[k - 1], logs[k])
                    IN  F[Len(logs)]]

\* the delete_selected action (the delete view and the delete box of the
\* inline on the posting page end in the same Collector.delete): the first
\* POST is answered with the confirmation page, the POST that carries
\* post=yes deletes
JobApplicationAdmin_delete_selected(selected, confirmed) ==
    LET left == delete_applications(applications, event_logs, selected)
    IN  /\ selected # {}
        /\ selected \subseteq Stored(applications)
        /\ IF confirmed
           THEN /\ applications' = left.applications
                /\ event_logs' = left.event_logs
                /\ response' = [view |-> "application_delete_selected", status |-> 302,
                                outcome |-> "ok"]
           ELSE /\ response' = [view |-> "application_delete_selected", status |-> 200,
                                outcome |-> "confirmation"]
                /\ UNCHANGED <<applications, event_logs>>
        /\ UNCHANGED <<now, jobs, subscriptions, request, probe, inflight, cache>>

(***************************************************************************)
(* views.py: ApplicationTrackerView                                        *)
(***************************************************************************)
\* every way to list the members of S, each once
Orderings(S) ==
    {p \in [1..Cardinality(S) -> S] : \A i, k \in DOMAIN p : i # k => p[i] # p[k]}

\* order_by('created_at'): rows with equal timestamps come in any order
order_by_created_at(logs, S) ==
    {p \in Orderings(S) :
        \A i, k \in DOMAIN p : i < k => logs[p[i]].created_at <= logs[p[k]].created_at}

\* order_by('-created_at')
order_by_created_at_desc(logs, S) ==
    {p \in Orderings(S) :
        \A i, k \in DOMAIN p : i < k => logs[p[i]].created_at >= logs[p[k]].created_at}

\* the slice [:n]
Slice(p, n) == IF Len(p) <= n THEN p ELSE SubSeq(p, 1, n)

HistoryLimit == 10

\* get_context_data: the possible values of 'history'
tracker_history(logs, a) ==
    {Slice(p, HistoryLimit) : p \in order_by_created_at_desc(logs, LogsOf(logs, a))}

\* get_status_timeline: the possible orders of the status_change entries
get_status_timeline(logs, a) ==
    order_by_created_at(logs, {k \in LogsOf(logs, a) : logs[k].event_type = "status_change"})

\* ApplicationTrackerView.get: get_object by reference code
ApplicationTrackerView_get_object(r, a) ==
    /\ inflight[r].pc = "waiting"
    /\ IF a \in Stored(applications)
       THEN /\ inflight' = [inflight EXCEPT ![r] = [pc |-> "found", kind |-> "track",
                                                    application |-> a]]
            /\ UNCHANGED response
       ELSE /\ inflight' = [inflight EXCEPT ![r] = [pc |-> "refused", kind |-> "track",
                                                    application |-> a]]
            /\ response' = [view |-> "tracker", status |-> 404, outcome |-> "not_found",
                            application |-> a, history |-> <<>>, status_timeline |-> <<>>]
    /\ UNCHANGED <<now, jobs, applications, event_logs, subscriptions, request, probe, cache>>

\* get_context_data builds the history queryset without running it, and
\* get_status_timeline runs its query
ApplicationTrackerView_get_status_timeline(r) ==
    LET req == inflight[r]
    IN  /\ req.pc = "found"
        /\ \E tl \in get_status_timeline(event_logs, req.application) :
              inflight' = [inflight EXCEPT ![r] = [pc |-> "timeline", kind |-> "track",
                                                   application |-> req.application,
                                                   status_timeline |-> tl]]
        /\ UNCHANGED <<now, jobs, applications, event_logs, subscriptions, request, response,
                       probe, cache>>

\* render_to_response: the template runs the history query
ApplicationTrackerView_render(r) ==
    LET req == inflight[r]
    IN  /\ req.pc = "timeline"
        /\ \E h \in tracker_history(event_logs, req.application) :
              response' = [view |-> "tracker", status |-> 200, outcome |-> "ok",
                           application |-> req.application, history |-> h,
                           status_timeline |-> req.status_timeline]
        /\ inflight' = [inflight EXCEPT ![r] = [pc |-> "done", kind |-> "track",
                                                application |-> req.application]]
        /\ UNCHANGED <<now, jobs, applications, event_logs, subscriptions, request, probe,
                       cache>>

(***************************************************************************)
(* admin.py: the publish_jobs and close_positions actions of               *)
(* JobOpeningAdmin, which run between the statements of the public views.  *)
(***************************************************************************)
\* queryset.filter(status='draft').update(status='open', published_date=now)
publish_jobs(rows, selected, t) ==
    [i \in DOMAIN rows |->
        IF i \in selected /\ rows[i] # None /\ rows[i].status = "draft"
        THEN [rows[i] EXCEPT !.status = "open", !.published_date = <<t>>]
        ELSE rows[i]]

AdminRequest(view, selected) == [view |-> view, method |-> "POST", selected |-> selected]

\* queryset.update(status='closed', closed_date=now), on the columns the
\* rows carry
close_positions(rows, selected, t) ==
    [i \in DOMAIN rows |->
        IF i \in selected /\ rows[i] # None
        THEN [rows[i] EXCEPT !.status = "closed", !.closed_date = <<t>>]
        ELSE rows[i]]

JobOpeningAdmin_publish_jobs(selected) ==
    /\ selected # {} /\ selected \subseteq Stored(jobs)
    /\ jobs' = publish_jobs(jobs, selected, now)
    /\ request' = AdminRequest("publish_jobs", selected)
    /\ response' = [view |-> "publish_jobs", status |-> 302, outcome |-> "ok"]
    /\ UNCHANGED <<now, applications, event_logs, subscriptions, probe, inflight, cache>>

JobOpeningAdmin_close_positions(selected) ==
    /\ selected # {} /\ selected \subseteq Stored(jobs)
    /\ jobs' = close_positions(jobs, selected, now)
    /\ request' = AdminRequest("close_positions", selected)
    /\ response' = [view |-> "close_positions", status |-> 302, outcome |-> "ok"]
    /\ UNCHANGED <<now, applications, event_logs, subscriptions, probe, inflight, cache>>

(***************************************************************************)
(* Intake: postings as the admin created them, an empty application store, *)
(* and the public views acting on them.                                    *)
(***************************************************************************)
IntakeJobStatuses == {"draft", "open", "closed"}

\* every configuration of a posting the intake preconditions tell apart
JobConfigs ==
    {NewJob(s, p, dl, v) : s \in IntakeJobStatuses, p \in {None, <<1>>},
                           dl \in {None, <<0>>}, v \in {0, 1}}

\* a plain open posting: published, no deadline, one vacancy
OpenJob == NewJob("open", None, None, 1)

EmptyStore ==
    /\ now = 0
    /\ applications = <<>>
    /\ event_logs = <<>>
    /\ subscriptions = <<>>
    /\ request = NoRequest
    /\ response = NoResponse
    /\ probe = NoProbe
    /\ inflight = NoInflight
    /\ cache = NoCache

\* the store with the requests of a pool waiting to be handled
StoreWith(pool) ==
    /\ now = 0
    /\ applications = <<>>
    /\ event_logs = <<>>
    /\ subscriptions = <<>>
    /\ request = NoRequest
    /\ response = NoResponse
    /\ probe = NoProbe
    /\ inflight = [r \in pool |-> Waiting]
    /\ cache = NoCache

MaxRequests == 3

Requests == 1..MaxRequests

RequestKinds == {"view", "apply"}

\* the requests of the public site that read a posting first
IntakeKinds == RequestKinds \cup {"quick"}

InitIntake ==
    /\ StoreWith(1..MaxApps)
    /\ jobs \in [JobIds -> JobConfigs]

NextIntake ==
    \/ Tick
    \/ \E r \in 1..MaxApps, kind \in IntakeKinds, j \in JobIds : get_object(r, kind, j)
    \/ \E r \in 1..MaxApps : JobDetailView_increment_views(r)
    \/ \E r \in 1..MaxApps, e \in Emails, fields_ok \in BOOLEAN, mail_ok \in BOOLEAN,
          d1 \in {0, 1}, d2 \in {0, 1} :
          JobApplicationCreateView_post(r, e, fields_ok, mail_ok, ADMIN_EMAILS, TRUE, FALSE,
                                        d1, d2)
    \/ \E r \in 1..MaxApps, e \in Emails, fields_ok \in BOOLEAN, mail_ok \in BOOLEAN :
          QuickApplyView_post(r, e, fields_ok, mail_ok)
    \/ \E sel \in SUBSET JobIds : JobOpeningAdmin_close_positions(sel)
    \/ \E r \in 1..MaxApps, a \in 1..MaxApps : ApplicationTrackerView_get_object(r, a)
    \/ \E r \in 1..MaxApps : ApplicationTrackerView_get_status_timeline(r)
    \/ \E r \in 1..MaxApps : ApplicationTrackerView_render(r)

SpecIntake == InitIntake /\ [][NextIntake]_vars

(***************************************************************************)
(* Lifecycle: applications taken in for an open posting, through the full  *)
(* form or the admin, then moved through their statuses.                   *)
(***************************************************************************)
InitLifecycle ==
    /\ StoreWith({1})
    /\ jobs = [j \in JobIds |-> OpenJob]

NextLifecycle ==
    \/ Tick
    \/ \E r \in {1}, j \in JobIds : get_object(r, "apply", j)
    \/ \E r \in {1}, e \in Emails :
          /\ Len(applications) < MaxApps
          /\ JobApplicationCreateView_post(r, e, TRUE, TRUE, ADMIN_EMAILS, TRUE, FALSE, 0, 0)
    \/ \E a \in 1..MaxApps, st \in StatusInputs, notes \in NotesInputs :
          JobApplication_update_status(a, st, notes)
    \/ \E sel \in SUBSET (1..MaxApps) : mark_as_shortlisted(sel)
    \/ \E sel \in SUBSET (1..MaxApps) : mark_as_rejected(sel)
    \/ \E sel \in SUBSET (1..MaxApps) : schedule_interview(sel)
    \/ \E a \in 1..MaxApps, j \in JobIds, e \in Emails, st \in AdminStatusInputs,
          notes \in NotesInputs, source \in AdminSourceInputs,
          all \in BOOLEAN :
          JobApplicationAdmin_change(a, j, e, st, notes, source,
                                     IF all THEN LogsOf(event_logs, a) ELSE {})
    \/ \E j \in JobIds, e \in Emails, st \in AdminStatusInputs, notes \in NotesInputs :
          JobApplicationAdmin_add(j, e, st, notes, "career_site")
    \/ \E sel \in SUBSET (1..MaxApps), confirmed \in BOOLEAN :
          JobApplicationAdmin_delete_selected(sel, confirmed)

SpecLifecycle == InitLifecycle /\ [][NextLifecycle]_vars

(***************************************************************************)
(* Mail: an open posting seen once that has taken in no application or     *)
(* nine, and two more requests, with the mail server up or down, the admin *)
(* recipients set or not, and the session cookie present or not.           *)
(***************************************************************************)
\* the address of the i-th earlier applicant: i + 1 letters "c"
EarlierEmail(i) == [k \in 1..(i + 1) |-> "c"]

\* the store after the posting was viewed once and n applicants went
\* through the full form, every confirmation sent
MailStore(n) ==
    /\ jobs = [j \in JobIds |->
                  [OpenJob EXCEPT !.views_count = 1, !.applications_count = n,
                                  !.conversion_rate = QuantizedRate(n, 1)]]
    /\ applications = [i \in 1..n |-> NewApplication(1, EarlierEmail(i), "career_site", 0)]
    /\ event_logs = [k \in 1..(2 * n) |->
                        IF k % 2 = 1
                        THEN NewEventLog((k + 1) \div 2, "status_change", "submitted", 0)
                        ELSE NewEventLog(k \div 2, "email_sent", "confirmation_sent", 0)]

InitMail ==
    /\ now = 0
    /\ \E n \in {0, 9} : MailStore(n)
    /\ subscriptions = <<>>
    /\ request = NoRequest
    /\ response = NoResponse
    /\ probe = NoProbe
    /\ inflight = [r \in 1..MaxApps |-> Waiting]
    /\ cache = NoCache

NextMail ==
    \/ Tick
    \/ \E r \in 1..MaxApps, kind \in RequestKinds, j \in JobIds : get_object(r, kind, j)
    \/ \E r \in 1..MaxApps : JobDetailView_increment_views(r)
    \/ \E r \in 1..MaxApps, e \in Emails, fields_ok \in BOOLEAN, mail_ok \in BOOLEAN,
          admin_emails \in AdminEmailSettings, admin_ok \in BOOLEAN, session \in BOOLEAN,
          d1 \in {0, 1}, d2 \in {0, 1} :
          JobApplicationCreateView_post(r, e, fields_ok, mail_ok, admin_emails, admin_ok,
                                        session, d1, d2)

SpecMail == InitMail /\ [][NextMail]_vars

(***************************************************************************)
(* Activity: postings in every status, with and without a deadline, read   *)
(* through JobOpening.is_active as the clock advances.                     *)
(***************************************************************************)
ActiveJobConfigs ==
    {NewJob(s, None, dl, v) : s \in JOB_STATUS_CHOICES, dl \in OptTimes, v \in 0..MaxVacancy}

\* reading the property job.is_active at the current time
JobOpening_is_active(j) ==
    /\ probe' = [op |-> "is_active", job |-> j, at |-> now,
                 result |-> is_active(jobs[j], now)]
    /\ UNCHANGED <<now, jobs, applications, event_logs, subscriptions, request, response,
                   inflight, cache>>

InitActive ==
    /\ EmptyStore
    /\ jobs \in [JobIds -> ActiveJobConfigs]

NextActive ==
    \/ Tick
    \/ \E j \in JobIds : JobOpening_is_active(j)

SpecActive == InitActive /\ [][NextActive]_vars

\* C1: is_active is true exactly when the posting is open, its deadline is
\* absent or not before the current time, and it has a vacancy.
C1_IsActiveIffOpenInTimeWithVacancy ==
    probe.op = "is_active"
        => LET job == jobs[probe.job]
           IN  probe.result <=>
                   /\ job.status = "open"
                   /\ (job.application_deadline = None
                          \/ job.application_deadline[1] >= probe.at)
                   /\ job.vacancy_count > 0

\* C1 witness: an open posting with a vacancy read exactly at its deadline,
\* and found active
C1_Witness ==
    /\ probe.op = "is_active"
    /\ probe.result
    /\ jobs[probe.job].application_deadline = <<probe.at>>

(***************************************************************************)
(* Job alerts: JobAlertSubscriptionForm, JobAlertSubscriptionView and      *)
(* confirm_alert_subscription.  A confirmation token is a fresh uuid4: the *)
(* n-th subscription gets token n.  The views run outside any transaction  *)
(* (settings.py sets no ATOMIC_REQUESTS): validation and INSERT, and       *)
(* lookup and save(), are separate statements, and a worker handling       *)
(* another request runs between them.                                      *)
(***************************************************************************)
\* JobAlertSubscriptionForm.clean_email: the queryset existing, the active
\* rows whose email is the posted one ignoring case
existing(email, subs) ==
    {i \in Stored(subs) : iexact(subs[i].email, email) /\ subs[i].is_active}

\* email = models.EmailField(unique=True): the exact comparison made by
\* ModelForm.validate_unique and by the UNIQUE index, for the row pk (0 for a
\* row not stored yet)
subscription_email_taken(email, subs, pk) ==
    \E i \in Stored(subs) \ {pk} : subs[i].email = email

\* JobAlertSubscriptionView.form_valid: the stored row
NewSubscription(email, frequency, token) ==
    [email |-> email, frequency |-> frequency, confirmation_token |-> token,
     is_active |-> TRUE, is_confirmed |-> FALSE]

\* choices of JobAlertSubscription.frequency offered to the requests
FrequencyInputs == {"daily", "weekly"}

\* the workers that handle subscribe and confirm requests side by side
AlertWorkers == 1..2

AlertIdle == [pc |-> "idle"]

\* the requests that may still run their INSERT: those whose form is valid
\* so far and whose clean_email found no match
Validated ==
    {w \in AlertWorkers : \/ inflight[w].pc = "valid"
                          \/ inflight[w].pc = "unique" /\ inflight[w].fields_ok}

AlertResponse(status, outcome, errors, token) ==
    [view |-> "subscribe_alert", status |-> status, outcome |-> outcome,
     errors |-> errors, token |-> token]

AlertRequest(email) == [view |-> "subscribe_alert", method |-> "POST", email |-> email]

\* JobAlertSubscriptionView.form_invalid
subscription_form_invalid(xhr, errors) ==
    IF xhr THEN AlertResponse(400, "json_invalid", errors, 0)
    ELSE AlertResponse(200, "form_invalid", errors, 0)

\* the errors of the fields other than email
other_field_errors(fields_ok) == IF fields_ok THEN {} ELSE {"other_field"}

\* JobAlertSubscriptionView.post up to existing.exists() of clean_email: the
\* first SELECT.  Each later statement of the validation is a step of its
\* own, and other requests run in between.
JobAlertSubscriptionView_post(w, email, frequency, fields_ok, xhr) ==
    LET exists == existing(email, subscriptions) # {}
    IN  /\ inflight[w].pc = "idle"
        /\ (fields_ok /\ ~exists) => Len(subscriptions) + Cardinality(Validated) < MaxSubs
        /\ inflight' = [inflight EXCEPT ![w] =
                          [pc |-> IF exists THEN "exists" ELSE "unique", posted |-> email,
                           email |-> Lower(email), frequency |-> frequency,
                           fields_ok |-> fields_ok, xhr |-> xhr]]
        /\ UNCHANGED <<now, jobs, applications, event_logs, subscriptions, request, response,
                       probe, cache>>

\* clean_email after exists() answered True: subscription = existing.first()
\* is a second SELECT, ordered by pk (the model declares no ordering), and
\* None when the match is gone by then; subscription.is_confirmed of None is
\* an AttributeError, which nothing catches
JobAlertSubscriptionForm_clean_email(w) ==
    LET req == inflight[w]
        rows == existing(req.posted, subscriptions)
        subscription == CHOOSE i \in rows : \A k \in rows : i <= k
    IN  /\ req.pc = "exists"
        /\ response' = IF rows = {}
                       THEN AlertResponse(500, "AttributeError", {}, 0)
                       ELSE subscription_form_invalid(req.xhr,
                                (IF subscriptions[subscription].is_confirmed
                                 THEN {"already_subscribed"} ELSE {"confirm_existing"})
                                    \cup other_field_errors(req.fields_ok))
        /\ request' = AlertRequest(req.posted)
        /\ inflight' = [inflight EXCEPT ![w] = AlertIdle]
        /\ UNCHANGED <<now, jobs, applications, event_logs, subscriptions, probe, cache>>

\* ModelForm._post_clean after clean_email returned the lower-cased address:
\* validate_unique is a SELECT for a row with exactly that email, active or
\* not.  An invalid form is answered here; a valid one goes on to form_valid.
JobAlertSubscriptionForm_validate_unique(w) ==
    LET req == inflight[w]
        errors == (IF subscription_email_taken(req.email, subscriptions, 0)
                   THEN {"email_exists"} ELSE {}) \cup other_field_errors(req.fields_ok)
    IN  /\ req.pc = "unique"
        /\ IF errors # {}
           THEN /\ response' = subscription_form_invalid(req.xhr, errors)
                /\ request' = AlertRequest(req.posted)
                /\ inflight' = [inflight EXCEPT ![w] = AlertIdle]
           ELSE /\ inflight' = [inflight EXCEPT ![w] = [req EXCEPT !.pc = "valid"]]
                /\ UNCHANGED <<request, response>>
        /\ UNCHANGED <<now, jobs, applications, event_logs, subscriptions, probe, cache>>

\* JobAlertSubscriptionView.form_valid: subscription.save() is the INSERT, and
\* the UNIQUE index on email refuses it with IntegrityError, which nothing
\* catches, when the address was stored since is_valid
JobAlertSubscriptionView_form_valid(w) ==
    LET req == inflight[w]
        token == Len(subscriptions) + 1
    IN  /\ req.pc = "valid"
        /\ IF subscription_email_taken(req.email, subscriptions, 0)
           THEN /\ response' = AlertResponse(500, "IntegrityError", {}, 0)
                /\ UNCHANGED subscriptions
           ELSE /\ subscriptions' = Append(subscriptions,
                                           NewSubscription(req.email, req.frequency, token))
                /\ response' = IF req.xhr
                               THEN AlertResponse(200, "json_success", {}, token)
                               ELSE AlertResponse(302, "success", {}, token)
        /\ request' = AlertRequest(req.posted)
        /\ inflight' = [inflight EXCEPT ![w] = AlertIdle]
        /\ UNCHANGED <<now, jobs, applications, event_logs, probe, cache>>

\* get_object_or_404(JobAlertSubscription, confirmation_token=token, is_confirmed=False)
confirm_lookup(subs, token) ==
    {i \in Stored(subs) : subs[i].confirmation_token = token /\ ~subs[i].is_confirmed}

ConfirmResponse(status, outcome, token) ==
    [view |-> "confirm_alert", status |-> status, outcome |-> outcome, errors |-> {},
     token |-> token]

\* confirm_alert_subscription up to get_object_or_404: the SELECT.  Http404
\* ends the request; otherwise the row is held in an instance and other
\* requests run before it is saved.
confirm_alert_subscription(w, token) ==
    LET found == confirm_lookup(subscriptions, token)
        pk == CHOOSE i \in found : TRUE
    IN  /\ inflight[w].pc = "idle"
        /\ IF found = {}
           THEN /\ response' = ConfirmResponse(404, "not_found", token)
                /\ UNCHANGED inflight
           ELSE /\ inflight' = [inflight EXCEPT ![w] =
                                  [pc |-> "selected", pk |-> pk, token |-> token,
                                   instance |-> subscriptions[pk]]]
                /\ UNCHANGED response
        /\ UNCHANGED <<now, jobs, applications, event_logs, subscriptions, request, probe,
                       cache>>

\* confirm_alert_subscription from subscription.is_confirmed = True on:
\* Model.save() writes every column of the instance to the row of its pk (an
\* UPDATE, or an INSERT when the row is gone), and the UNIQUE index on email
\* refuses it with IntegrityError when another row holds the address
confirm_alert_subscription_save(w) ==
    LET req == inflight[w]
        instance == [req.instance EXCEPT !.is_confirmed = TRUE]
    IN  /\ req.pc = "selected"
        /\ IF subscription_email_taken(instance.email, subscriptions, req.pk)
           THEN /\ response' = ConfirmResponse(500, "IntegrityError", req.token)
                /\ UNCHANGED subscriptions
           ELSE /\ subscriptions' = [subscriptions EXCEPT ![req.pk] = instance]
                /\ response' = ConfirmResponse(302, "confirmed", req.token)
        /\ inflight' = [inflight EXCEPT ![w] = AlertIdle]
        /\ UNCHANGED <<now, jobs, applications, event_logs, request, probe, cache>>

InitAlert ==
    /\ now = 0
    /\ jobs = [j \in JobIds |-> OpenJob]
    /\ applications = <<>>
    /\ event_logs = <<>>
    /\ subscriptions = <<>>
    /\ request = NoRequest
    /\ response = NoResponse
    /\ probe = NoProbe
    /\ inflight = [w \in AlertWorkers |-> AlertIdle]
    /\ cache = NoCache

NextAlert ==
    \/ \E w \in AlertWorkers, e \in Emails, f \in FrequencyInputs, fields_ok \in BOOLEAN,
          xhr \in BOOLEAN :
          JobAlertSubscriptionView_post(w, e, f, fields_ok, xhr)
    \/ \E w \in AlertWorkers : JobAlertSubscriptionForm_clean_email(w)
    \/ \E w \in AlertWorkers : JobAlertSubscriptionForm_validate_unique(w)
    \/ \E w \in AlertWorkers : JobAlertSubscriptionView_form_valid(w)
    \/ \E w \in AlertWorkers, token \in 1..(MaxSubs + 1) : confirm_alert_subscription(w, token)
    \/ \E w \in AlertWorkers : confirm_alert_subscription_save(w)

SpecAlert == InitAlert /\ [][NextAlert]_vars

\* the subscription a token was issued to
TokenOwner(subs, token) == {i \in Stored(subs) : subs[i].confirmation_token = token}

\* C7: a confirmation request with an issued token is never an error,
\* whether the subscription is still unconfirmed or already confirmed, and
\* leaves the subscription confirmed.
C7_ReconfirmationIsNotAnError ==
    (response.view = "confirm_alert" /\ TokenOwner(subscriptions, response.token) # {})
        => /\ response.status < 400
           /\ \A i \in TokenOwner(subscriptions, response.token) :
                 subscriptions[i].is_confirmed

(***************************************************************************)
(* Webhooks: linkedin_webhook, indeed_webhook, calendar_webhook.           *)
(* A query parameter is None when absent, else its text (possibly empty).  *)
(* A body is one of six kinds of byte string; json_raises tells which of   *)
(* them parse.  A signature header is None or the digest it carries, and   *)
(* the digest of a body under a key is the pair <<key, body>>.             *)
(***************************************************************************)
Webhooks == {"linkedin_webhook", "indeed_webhook", "calendar_webhook"}

ParamValues == {None, <<"">>, <<"abc123">>, <<"xyz">>}

\* "json_beyond_limits" is a well-formed JSON text json.loads refuses: an array
\* nested deeper than the recursion limit (RecursionError) or an integer of
\* more digits than the conversion limit (ValueError)
Bodies == {"empty", "json_object", "json_array", "malformed", "not_utf8",
           "json_beyond_limits"}

Secrets == {None, <<"s3cret">>}

\* hmac.new(key, msg, sha256).hexdigest()
hmac_sha256(key, msg) == <<key, msg>>

\* a signature header whose text is not ASCII
NonAsciiSignature == <<"non_ascii">>

SignatureHeaders(body) ==
    {None, <<hmac_sha256("s3cret", body)>>, <<hmac_sha256("other", body)>>,
     <<NonAsciiSignature>>}

GetRequests ==
    {[view |-> v, method |-> "GET", challenge |-> c, hub_challenge |-> h] :
        v \in Webhooks, c \in ParamValues, h \in ParamValues}

PostRequests ==
    UNION {{[view |-> v, method |-> "POST", body |-> b, secret |-> k, signature |-> g] :
              v \in Webhooks, k \in Secrets, g \in SignatureHeaders(b)} : b \in Bodies}

OtherRequests == {[view |-> v, method |-> "PUT"] : v \in Webhooks}

\* a query value in a Python condition: None and '' are falsy
Truthy(p) == p # None /\ p # <<"">>

\* request.GET.get('challenge') or request.GET.get('hub.challenge')
challenge_of(req) == IF Truthy(req.challenge) THEN req.challenge ELSE req.hub_challenge

\* body.decode('utf-8') raises UnicodeDecodeError
decode_raises(body) == body = "not_utf8"

\* json.loads raises JSONDecodeError
json_raises(body) == body \in {"malformed", "empty"}

\* json.loads raises an exception that is not a JSONDecodeError
loads_raises_other(body) == body = "json_beyond_limits"

HttpResponse(view, status, body) == [view |-> view, status |-> status, body |-> body]

\* the event-log row a webhook tries to store: it has no application
webhook_log(view, t) == NewEventLog(NoApplication, view, "webhook", t)

\* hmac.compare_digest(computed, received) raises TypeError when a str
\* argument holds a non-ASCII character
compare_digest_raises(received) == received = NonAsciiSignature

\* linkedin_webhook: <<response, event log>>
linkedin_webhook(req, logs, t) ==
    IF req.method = "GET"
    THEN IF Truthy(challenge_of(req))
         THEN <<HttpResponse(req.view, 200, challenge_of(req)[1]), logs>>
         ELSE <<HttpResponse(req.view, 200, "OK"), logs>>
    ELSE IF req.method = "POST"
    THEN IF req.secret # None /\ req.signature # None
            /\ compare_digest_raises(req.signature[1])
         THEN <<HttpResponse(req.view, 500, ""), logs>>
         ELSE IF req.secret # None /\ req.signature # None
            /\ hmac_sha256(req.secret[1], req.body) # req.signature[1]
         THEN <<HttpResponse(req.view, 403, ""), logs>>
         ELSE <<HttpResponse(req.view, 200, "Received"),
                objects_create(logs, webhook_log(req.view, t))>>
    ELSE <<HttpResponse(req.view, 405, ""), logs>>

\* indeed_webhook, behind @require_POST
indeed_webhook(req, logs, t) ==
    IF req.method # "POST" THEN <<HttpResponse(req.view, 405, ""), logs>>
    ELSE IF decode_raises(req.body) THEN <<HttpResponse(req.view, 500, "UnicodeDecodeError"), logs>>
    ELSE IF req.body = "empty" THEN <<HttpResponse(req.view, 400, "Empty body"), logs>>
    ELSE IF json_raises(req.body) THEN <<HttpResponse(req.view, 400, "Invalid JSON"), logs>>
    ELSE IF loads_raises_other(req.body)
    THEN <<HttpResponse(req.view, 500, "RecursionError or ValueError"), logs>>
    ELSE <<HttpResponse(req.view, 200, "status_ok"),
           objects_create(logs, webhook_log(req.view, t))>>

\* calendar_webhook
calendar_webhook(req, logs, t) ==
    IF req.method = "GET"
    THEN IF Truthy(challenge_of(req))
         THEN <<HttpResponse(req.view, 200, challenge_of(req)[1]), logs>>
         ELSE <<HttpResponse(req.view, 200, "status_ok_get"), logs>>
    ELSE IF req.method = "POST"
    THEN IF decode_raises(req.body)
         THEN <<HttpResponse(req.view, 500, "UnicodeDecodeError"), logs>>
         ELSE IF req.body = "empty" THEN <<HttpResponse(req.view, 400, "Empty body"), logs>>
         ELSE IF json_raises(req.body)
         THEN <<HttpResponse(req.view, 400, "Invalid JSON"), logs>>
         ELSE IF loads_raises_other(req.body)
         THEN <<HttpResponse(req.view, 500, "RecursionError or ValueError"), logs>>
         ELSE <<HttpResponse(req.view, 200, "status_received"),
                objects_create(logs, webhook_log(req.view, t))>>
    ELSE <<HttpResponse(req.view, 405, ""), logs>>

handle_webhook(req, logs, t) ==
    CASE req.view = "linkedin_webhook" -> linkedin_webhook(req, logs, t)
      [] req.view = "indeed_webhook" -> indeed_webhook(req, logs, t)
      [] req.view = "calendar_webhook" -> calendar_webhook(req, logs, t)

Webhook(req) ==
    /\ request' = req
    /\ response' = handle_webhook(req, event_logs, now)[1]
    /\ event_logs' = handle_webhook(req, event_logs, now)[2]
    /\ UNCHANGED <<now, jobs, applications, subscriptions, probe, inflight, cache>>

WebhookGet == \E req \in GetRequests : Webhook(req)

WebhookPost == \E req \in PostRequests : Webhook(req)

WebhookOther == \E req \in OtherRequests : Webhook(req)

InitHook ==
    /\ EmptyStore
    /\ jobs = [j \in JobIds |-> OpenJob]

NextHook == Tick \/ WebhookGet \/ WebhookPost \/ WebhookOther

SpecHook == InitHook /\ [][NextHook]_vars

\* the request is a GET that carries a non-empty challenge or hub.challenge
CarriesChallenge(req) ==
    req.method = "GET" /\ (Truthy(req.challenge) \/ Truthy(req.hub_challenge))

\* the non-empty values the request carries
ChallengeValues(req) ==
    {p[1] : p \in {q \in {req.challenge, req.hub_challenge} : Truthy(q)}}

\* C8: on each of the three endpoints a GET carrying a challenge or
\* hub.challenge is answered 200 with that value as the body, and the step
\* stores nothing.
C8_ChallengeIsEchoed ==
    [][(request'.view \in Webhooks /\ CarriesChallenge(request'))
          => /\ response'.status = 200
             /\ response'.body \in ChallengeValues(request')
             /\ event_logs' = event_logs]_vars

(***************************************************************************)
(* Properties of intake, counters and the event log                        *)
(***************************************************************************)
IsIntakeResponse == response.view \in {"apply", "quick_apply"}

\* the request passed the posting's gate and reached form validation
ReachedValidation ==
    response.outcome \notin {"not_found", "not_published", "deadline_passed", "no_vacancy"}

\* C2: every posting with views has conversion_rate equal to
\* applications_count / views_count * 100 (to the stored two decimal places),
\* and a posting without views has conversion_rate 0.
C2_ConversionRateFollowsCounters ==
    \A j \in JobIds :
        LET job == jobs[j]
            exact == job.applications_count * 10000      \* rate * views, in hundredths
            stored == job.conversion_rate * job.views_count
        IN  IF job.views_count > 0
            THEN 2 * (stored - exact) <= job.views_count
                 /\ 2 * (exact - stored) <= job.views_count
            ELSE job.conversion_rate = 0

\* C3: a submission, valid in its other fields, that meets a stored
\* application for the same job and the same address ignoring case is turned
\* away by form validation with the already-applied error, and stores nothing.
C3_DuplicateRejectedAtValidation ==
    (IsIntakeResponse /\ response.duplicate /\ ReachedValidation
        /\ "other_field" \notin response.errors)
        => /\ response.outcome = "form_invalid"
           /\ "already_applied" \in response.errors
           /\ response.application = 0

\* C4: applications_count of a posting equals the number of applications
\* stored for it.
C4_CounterEqualsStoredApplications ==
    \A j \in JobIds :
        jobs[j].applications_count = Cardinality(ApplicationsOf(applications, j))

\* the intake preconditions, as the specification lists them
PreconditionViolated(job, t) ==
    \/ job.status # "open"
    \/ job.published_date # None /\ job.published_date[1] > t
    \/ job.application_deadline # None /\ job.application_deadline[1] < t
    \/ job.vacancy_count = 0

\* C9: while a posting violates an intake precondition, no step stores an
\* application for it, changes its counter or writes an event-log entry.
C9_NoIntakeWhenPreconditionFails ==
    [][\A j \in JobIds :
          PreconditionViolated(jobs[j], now)
              => /\ ApplicationsOf(applications', j) = ApplicationsOf(applications, j)
                 /\ jobs'[j].applications_count = jobs[j].applications_count
                 /\ event_logs' = event_logs]_vars

\* the step in which request r, past validation and the unique constraint,
\* ran form_valid to its end: both sends were attempted
SendsAttempted(r) ==
    /\ inflight[r].pc = "loaded" /\ inflight[r].kind = "apply"
    /\ inflight'[r].pc # "loaded"
    /\ response'.view = "apply" /\ response'.confirmation_email # "none"

\* C10: when the confirmation e-mail or the admin notification fails during
\* the intake of the full form, the request still answers with the success
\* redirect, and the step commits the application and the counter update of
\* the request.
C10_MailFailureDoesNotFailIntake ==
    [][\A r \in DOMAIN inflight :
          (SendsAttempted(r)
              /\ (response'.confirmation_email = "failed"
                     \/ response'.admin_notification = "failed"))
          => /\ response'.status = 302 /\ response'.outcome = "success"
             /\ Len(applications') = Len(applications) + 1
             /\ response'.application = Len(applications')
             /\ jobs'[inflight[r].job].applications_count
                   = inflight[r].instance.applications_count + 1]_vars

\* the new event-log rows of a step
NewLogs == (Len(event_logs) + 1)..Len(event_logs')

\* C5: a step that changes the status of an application appends exactly one
\* status_change entry for it and stamps status_changed_at with the clock.
C5_StatusChangeIsLoggedAndStamped ==
    [][\A a \in Stored(applications) \cap Stored(applications') :
          applications'[a].status # applications[a].status
              => /\ Cardinality({k \in NewLogs :
                                    /\ event_logs'[k].application = a
                                    /\ event_logs'[k].event_type = "status_change"}) = 1
                 /\ applications'[a].status_changed_at = now]_vars

\* entry x was created strictly before entry y
CreatedEarlier(x, y) == event_logs[x].created_at < event_logs[y].created_at

\* no entry of the listing stands after one created later
InCreationOrder(p) == \A i, k \in DOMAIN p : i < k => ~CreatedEarlier(p[k], p[i])

Range(p) == {p[i] : i \in DOMAIN p}

\* C6: the tracker lists the entries of the application in creation order,
\* in the status timeline and in the history: no entry stands after one
\* created later.
C6_TrackerListsInCreationOrder ==
    response.view = "tracker"
        => InCreationOrder(response.status_timeline) /\ InCreationOrder(response.history)

(***************************************************************************)
(* Concurrent requests: three requests, each a view of the posting or a    *)
(* submission of the full form, in every interleaving of their reads and   *)
(* writes.                                                                 *)
(***************************************************************************)
\* the address request r applies with: r letters, so no two are equal
RequestEmail(r) == [i \in 1..r |-> "a"]

InitRace ==
    /\ now = 0
    /\ jobs = [j \in JobIds |-> OpenJob]
    /\ applications = <<>>
    /\ event_logs = <<>>
    /\ subscriptions = <<>>
    /\ request = NoRequest
    /\ response = NoResponse
    /\ probe = NoProbe
    /\ inflight = [r \in Requests |-> Waiting]
    /\ cache = NoCache

NextRace ==
    \/ \E r \in Requests, kind \in RequestKinds, j \in JobIds : get_object(r, kind, j)
    \/ \E r \in Requests : JobDetailView_increment_views(r)
    \/ \E r \in Requests :
          JobApplicationCreateView_post(r, RequestEmail(r), TRUE, TRUE, ADMIN_EMAILS, TRUE, FALSE,
                                        0, 0)

SpecRace == InitRace /\ [][NextRace]_vars

\* no request stands between its read and its write
Quiescent == \A r \in DOMAIN inflight : inflight[r].pc # "loaded"

\* the requests of a kind that have finished
Completed(kind) ==
    {r \in DOMAIN inflight : inflight[r].pc = "done" /\ inflight[r].kind = kind}

\* C11: whenever no request is between its read and its write, each counter
\* of the posting (0 at the start) equals the number of requests of its kind
\* that have run: no increment is lost, whatever the interleaving.
C11_NoIncrementIsLost ==
    (inflight # NoInflight /\ Quiescent)
        => \A j \in JobIds :
              /\ jobs[j].views_count = Cardinality(Completed("view"))
              /\ jobs[j].applications_count = Cardinality(Completed("apply"))

\* C12: no step lowers the stored views_count or applications_count of a
\* posting.
C12_CountersNeverDecrease ==
    [][\A j \in JobIds :
          /\ jobs'[j].views_count >= jobs[j].views_count
          /\ jobs'[j].applications_count >= jobs[j].applications_count]_vars

(***************************************************************************)
(* admin.py: ApplicationEventLogAdmin.  The class overrides                *)
(* has_add_permission and has_change_permission; every other permission    *)
(* and the site-wide delete_selected action are those ModelAdmin gives to  *)
(* the user.                                                               *)
(***************************************************************************)
\* staff users: a superuser, a user who may only view the log, and a user
\* who was also given the delete permission
AdminUsers ==
    {[is_superuser |-> TRUE, perms |-> {}],
     [is_superuser |-> FALSE, perms |-> {"view_applicationeventlog"}],
     [is_superuser |-> FALSE,
      perms |-> {"view_applicationeventlog", "delete_applicationeventlog"}]}

\* User.has_perm
has_perm(user, perm) == user.is_superuser \/ perm \in user.perms

\* ApplicationEventLogAdmin.has_add_permission
has_add_permission(user) == FALSE

\* ApplicationEventLogAdmin.has_change_permission
has_change_permission(user) == FALSE

\* ModelAdmin.has_delete_permission, not overridden by ApplicationEventLogAdmin
has_delete_permission(user) == has_perm(user, "delete_applicationeventlog")

\* the rows of a table that remain after the rows at the positions in
\* selected are deleted
delete_rows(rows, selected) ==
    LET F[i \in 0..Len(rows)] ==
            IF i = 0 THEN <<>>
            ELSE IF i \in selected THEN F[i - 1] ELSE Append(F[i - 1], rows[i])
    IN  F[Len(rows)]

AdminResponse(view, allowed) ==
    [view |-> view, status |-> IF allowed THEN 302 ELSE 403,
     outcome |-> IF allowed THEN "ok" ELSE "PermissionDenied"]

\* the add view of the event-log admin
ApplicationEventLogAdmin_add(user, a) ==
    /\ a \in Stored(applications)
    /\ response' = AdminResponse("eventlog_add", has_add_permission(user))
    /\ event_logs' = IF has_add_permission(user)
                     THEN objects_create(event_logs, NewEventLog(a, "note_added", "admin", now))
                     ELSE event_logs
    /\ UNCHANGED <<now, jobs, applications, subscriptions, request, probe, inflight, cache>>

\* the change view of the event-log admin (every field is read-only as well)
ApplicationEventLogAdmin_change(user, k) ==
    /\ k \in DOMAIN event_logs
    /\ response' = AdminResponse("eventlog_change", has_change_permission(user))
    /\ UNCHANGED <<now, jobs, applications, event_logs, subscriptions, request, probe,
                   inflight, cache>>

\* the delete view of one event-log row: PermissionDenied without the delete
\* permission; the first request shows the confirmation page, the POST of
\* that page deletes
ApplicationEventLogAdmin_delete(user, k, confirmed) ==
    /\ k \in DOMAIN event_logs
    /\ IF ~has_delete_permission(user)
       THEN /\ response' = AdminResponse("eventlog_delete", FALSE)
            /\ UNCHANGED event_logs
       ELSE IF ~confirmed
       THEN /\ response' = [view |-> "eventlog_delete", status |-> 200,
                            outcome |-> "confirmation"]
            /\ UNCHANGED event_logs
       ELSE /\ response' = AdminResponse("eventlog_delete", TRUE)
            /\ event_logs' = delete_rows(event_logs, {k})
    /\ UNCHANGED <<now, jobs, applications, subscriptions, request, probe, inflight, cache>>

\* POST action=delete_selected to the changelist.  The action carries
\* allowed_permissions = ('delete',): a user without the delete permission
\* is offered no action and gets the changelist back.  For the others the
\* first POST is answered with the confirmation page and the POST that
\* carries post=yes deletes the rows and redirects
ApplicationEventLogAdmin_delete_selected(user, selected, confirmed) ==
    /\ selected # {}
    /\ selected \subseteq DOMAIN event_logs
    /\ IF ~has_delete_permission(user)
       THEN /\ response' = [view |-> "eventlog_delete_selected", status |-> 200,
                            outcome |-> "changelist"]
            /\ UNCHANGED event_logs
       ELSE IF ~confirmed
       THEN /\ response' = [view |-> "eventlog_delete_selected", status |-> 200,
                            outcome |-> "confirmation"]
            /\ UNCHANGED event_logs
       ELSE /\ response' = AdminResponse("eventlog_delete_selected", TRUE)
            /\ event_logs' = delete_rows(event_logs, selected)
    /\ UNCHANGED <<now, jobs, applications, subscriptions, request, probe, inflight, cache>>

MaxLogs == 2 * MaxApps

InitAdmin ==
    /\ StoreWith(1..MaxApps)
    /\ jobs = [j \in JobIds |-> OpenJob]

NextAdmin ==
    \/ Tick
    \/ \E r \in 1..MaxApps, j \in JobIds : get_object(r, "apply", j)
    \/ \E r \in 1..MaxApps, e \in Emails :
          /\ Len(applications) < MaxApps
          /\ JobApplicationCreateView_post(r, e, TRUE, TRUE, ADMIN_EMAILS, TRUE, FALSE, 0, 0)
    \/ \E user \in AdminUsers, a \in 1..MaxApps : ApplicationEventLogAdmin_add(user, a)
    \/ \E user \in AdminUsers, k \in 1..MaxLogs : ApplicationEventLogAdmin_change(user, k)
    \/ \E user \in AdminUsers, k \in 1..MaxLogs, confirmed \in BOOLEAN :
          ApplicationEventLogAdmin_delete(user, k, confirmed)
    \/ \E user \in AdminUsers, sel \in SUBSET (1..MaxLogs), confirmed \in BOOLEAN :
          ApplicationEventLogAdmin_delete_selected(user, sel, confirmed)
    \/ \E sel \in SUBSET (1..MaxApps), confirmed \in BOOLEAN :
          JobApplicationAdmin_delete_selected(sel, confirmed)

SpecAdmin == InitAdmin /\ [][NextAdmin]_vars

\* C13: the event log is append-only: every step keeps every entry already
\* written, at its place and with its field values.
C13_EventLogIsAppendOnly ==
    [][/\ Len(event_logs') >= Len(event_logs)
       /\ \A k \in DOMAIN event_logs : event_logs'[k] = event_logs[k]]_vars

(***************************************************************************)
(* Status transitions: update_status called on an application in any       *)
(* status, toward any status.                                              *)
(***************************************************************************)
\* an application as earlier transitions may have left it
StatusApplications ==
    {[NewApplication(j, <<"a">>, "career_site", 0)
         EXCEPT !.status = st, !.status_notes = notes] :
        j \in JobIds, st \in APPLICATION_STATUS_CHOICES, notes \in NotesInputs}

\* application.update_status(new_status, notes), with the call recorded
update_status_call(a, new_status, notes) ==
    /\ a \in Stored(applications)
    /\ applications' = [applications EXCEPT ![a] = update_status(@, new_status, notes, now)]
    /\ probe' = [op |-> "update_status", application |-> a, new_status |-> new_status,
                 notes |-> notes, at |-> now, before |-> applications[a]]
    /\ UNCHANGED <<now, jobs, event_logs, subscriptions, request, response, inflight, cache>>

InitStatus ==
    /\ now = 0
    /\ jobs = [j \in JobIds |-> OpenJob]
    /\ applications \in {<<app>> : app \in StatusApplications}
    /\ event_logs = <<>>
    /\ subscriptions = <<>>
    /\ request = NoRequest
    /\ response = NoResponse
    /\ probe = NoProbe
    /\ inflight = NoInflight
    /\ cache = NoCache

NextStatus ==
    \/ Tick
    \/ \E a \in 1..MaxApps, st \in APPLICATION_STATUS_CHOICES, notes \in NotesInputs :
          update_status_call(a, st, notes)

SpecStatus == InitStatus /\ [][NextStatus]_vars

TerminalStatuses == {"accepted", "rejected", "withdrawn"}

\* C14: after update_status(new_status, notes), from whatever status, the
\* application has that status and those notes, and every other field but
\* status_changed_at is as it was before the call.
C14_UpdateStatusSetsStatusAndNotesOnly ==
    probe.op = "update_status"
        => LET app == applications[probe.application]
           IN  /\ app.status = probe.new_status
               /\ app.status_notes = probe.notes
               /\ DOMAIN app = DOMAIN probe.before
               /\ \A f \in DOMAIN app \ {"status", "status_notes", "status_changed_at"} :
                     app[f] = probe.before[f]

\* C14 witness: an application left a terminal status for an earlier one,
\* and its notes were replaced
C14_Witness ==
    /\ probe.op = "update_status"
    /\ probe.before.status \in TerminalStatuses
    /\ probe.new_status = "applied"
    /\ applications[probe.application].status = "applied"
    /\ probe.notes # probe.before.status_notes

(***************************************************************************)
(* Properties of the webhook POST requests                                 *)
(***************************************************************************)
\* the step handles a POST to one of the webhooks
WebhookPostStep == request'.view \in Webhooks /\ request'.method = "POST"

\* the request carries the digest of its body under the configured secret
SignatureVerifies(req) ==
    req.signature # None /\ req.signature[1] = hmac_sha256(req.secret[1], req.body)

\* C15: with a secret configured, a POST is accepted (200) only when its
\* signature is the HMAC-SHA256 of the body under the secret; any other POST
\* is answered 403 and writes no event-log entry.
C15_UnverifiedPostIsDenied ==
    [][(WebhookPostStep /\ request'.secret # None)
          => /\ response'.status = 200 => SignatureVerifies(request')
             /\ ~SignatureVerifies(request')
                   => response'.status = 403 /\ event_logs' = event_logs]_vars

\* the body is not a JSON document
NotWellFormed(body) == body \in {"malformed", "not_utf8"}

\* C16: a POST whose body is not well-formed JSON (and whose signature, if
\* one is required, verifies) is answered 400 and writes no event-log entry.
C16_MalformedBodyIsBadRequest ==
    [][(WebhookPostStep /\ NotWellFormed(request'.body)
           /\ (request'.secret = None \/ SignatureVerifies(request')))
          => response'.status = 400 /\ event_logs' = event_logs]_vars

\* C17: a POST that is accepted (200) appends exactly one event-log entry,
\* and that entry has no owning application.
C17_AcceptedPostIsLogged ==
    [][(WebhookPostStep /\ response'.status = 200)
          => /\ Len(event_logs') = Len(event_logs) + 1
             /\ event_logs'[Len(event_logs')].application = NoApplication]_vars

(***************************************************************************)
(* views.py: JobListView.get_queryset with forms.py: JobSearchFilterForm.  *)
(* In the search specifications a JobOpening row carries the columns the   *)
(* search reads.  Text is a sequence of characters; the two JSON columns   *)
(* are lists of texts; salaries are whole rupees; a day is one unit of the *)
(* clock.                                                                  *)
(***************************************************************************)
JOB_TYPE_CHOICES ==
    {"full_time", "part_time", "contract", "internship", "remote", "hybrid", "freelance"}

EXPERIENCE_LEVEL_CHOICES == {"intern", "entry", "mid", "senior", "lead", "executive"}

SALARY_RANGE_CHOICES ==
    {"", "0-300000", "300000-600000", "600000-1200000", "1200000-2400000", "2400000+"}

SORT_BY_CHOICES == {"relevance", "newest", "salary_high", "salary_low", "deadline"}

POSTED_WITHIN_CHOICES == {"", "1", "7", "30", "90"}

\* JobCategory.objects.filter(is_active=True): the category ids the form accepts
ActiveCategories == {1, 2}

\* a JobOpening row with the columns read by the search
SearchJob(status, published, created, posted, title, location, remote, job_type, level, category, smin, smax, featured) ==
    [status |-> status, published_date |-> published, created_at |-> created,
     posted_date |-> posted, application_deadline |-> None,
     title |-> title, short_description |-> <<"b">>, detailed_description |-> <<"b">>,
     required_skills |-> <<<<"b">>>>, tools_technologies |-> <<>>,
     location |-> location, is_remote_allowed |-> remote, job_type |-> job_type,
     experience_level |-> level, job_category |-> category,
     salary_range_min |-> smin, salary_range_max |-> smax, is_featured |-> featured]

\* the lookup column__icontains=needle
icontains(text, needle) ==
    \E i \in 1..(Len(text) - Len(needle) + 1) :
        SubSeq(Lower(text), i, i + Len(needle) - 1) = Lower(needle)

\* json.dumps of a list of texts, as a JSONField column stores it:
\* ["x", "y"]
RECURSIVE json_items(_)
json_items(list) ==
    IF list = <<>> THEN <<>>
    ELSE IF Len(list) = 1 THEN <<"\"">> \o list[1] \o <<"\"">>
    ELSE <<"\"">> \o list[1] \o <<"\"", ",", " ">> \o json_items(Tail(list))

json_dumps(list) == <<"[">> \o json_items(list) \o <<"]">>

\* the request parameters of a search; an absent text parameter is None, an
\* absent multiple choice is the empty set, an absent choice is ""
NoFilters ==
    [keyword |-> None, location |-> None, job_type |-> {}, experience_level |-> {},
     category |-> {}, salary_range |-> "", posted_within |-> "",
     remote_only |-> FALSE, featured_only |-> FALSE, sort_by |-> ""]

\* JobSearchFilterForm.is_valid: every choice field holds declared choices
form_is_valid(GET) ==
    /\ GET.job_type \subseteq JOB_TYPE_CHOICES
    /\ GET.experience_level \subseteq EXPERIENCE_LEVEL_CHOICES
    /\ GET.category \subseteq ActiveCategories
    /\ GET.salary_range \in SALARY_RANGE_CHOICES
    /\ GET.posted_within \in POSTED_WITHIN_CHOICES
    /\ GET.sort_by \in SORT_BY_CHOICES \cup {""}

\* int(posted_within)
DaysOf(posted_within) ==
    CASE posted_within = "1" -> 1
      [] posted_within = "7" -> 7
      [] posted_within = "30" -> 30
      [] posted_within = "90" -> 90

\* the base filter: status='open', published_date__lte=now
base_queryset(rows, t) ==
    {j \in DOMAIN rows :
        /\ rows[j].status = "open"
        /\ rows[j].published_date # None
        /\ rows[j].published_date[1] <= t}

\* the rows each optional filter keeps, once the form is valid; on the two
\* JSON columns icontains is a LIKE on the stored JSON text
keyword_matches(rows, GET) ==
    {j \in DOMAIN rows :
        \/ GET.keyword = None \/ GET.keyword = <<>>
        \/ icontains(rows[j].title, GET.keyword)
        \/ icontains(rows[j].short_description, GET.keyword)
        \/ icontains(rows[j].detailed_description, GET.keyword)
        \/ icontains(json_dumps(rows[j].required_skills), GET.keyword)
        \/ icontains(json_dumps(rows[j].tools_technologies), GET.keyword)}

location_matches(rows, GET) ==
    {j \in DOMAIN rows :
        IF GET.location = None \/ GET.location = <<>> THEN TRUE
        ELSE IF icontains(GET.location, <<"r", "e", "m", "o", "t", "e">>)
             THEN rows[j].is_remote_allowed
             ELSE icontains(rows[j].location, GET.location)}

job_type_matches(rows, GET) ==
    {j \in DOMAIN rows : GET.job_type = {} \/ rows[j].job_type \in GET.job_type}

experience_level_matches(rows, GET) ==
    {j \in DOMAIN rows :
        GET.experience_level = {} \/ rows[j].experience_level \in GET.experience_level}

category_matches(rows, GET) ==
    {j \in DOMAIN rows : GET.category = {} \/ rows[j].job_category \in GET.category}

\* a comparison with a NULL column is never true
gte(column, value) == column # None /\ column[1] >= value

lte(column, value) == column # None /\ column[1] <= value

\* the salary_range branch of get_queryset
salary_range_matches(rows, GET) ==
    {j \in DOMAIN rows :
        LET smin == rows[j].salary_range_min
            smax == rows[j].salary_range_max
        IN  CASE GET.salary_range = "0-300000" -> lte(smax, 300000)
              [] GET.salary_range = "300000-600000" -> gte(smin, 300000) /\ lte(smax, 600000)
              [] GET.salary_range = "600000-1200000" -> gte(smin, 600000) /\ lte(smax, 1200000)
              [] GET.salary_range = "1200000-2400000" ->
                     gte(smin, 1200000) /\ lte(smax, 2400000)
              [] GET.salary_range = "2400000+" -> gte(smin, 2400000)
              [] OTHER -> TRUE}

posted_within_matches(rows, GET, t) ==
    {j \in DOMAIN rows :
        GET.posted_within = "" \/ rows[j].posted_date >= t - DaysOf(GET.posted_within)}

remote_only_matches(rows, GET) ==
    {j \in DOMAIN rows : ~GET.remote_only \/ rows[j].is_remote_allowed}

featured_only_matches(rows, GET) ==
    {j \in DOMAIN rows : ~GET.featured_only \/ rows[j].is_featured}

\* queryset.filter(...): the rows of the queryset that match
queryset_filter(queryset, matches) == queryset \cap matches

\* get_queryset before ordering: the rows selected.  The clock is read
\* twice: t for the base filter, t2 for the posted_within window
filtered_queryset(rows, GET, t, t2) ==
    IF ~form_is_valid(GET) THEN base_queryset(rows, t)
    ELSE LET q1 == queryset_filter(base_queryset(rows, t), keyword_matches(rows, GET))
             q2 == queryset_filter(q1, location_matches(rows, GET))
             q3 == queryset_filter(q2, job_type_matches(rows, GET))
             q4 == queryset_filter(q3, experience_level_matches(rows, GET))
             q5 == queryset_filter(q4, category_matches(rows, GET))
             q6 == queryset_filter(q5, salary_range_matches(rows, GET))
             q7 == queryset_filter(q6, posted_within_matches(rows, GET, t2))
             q8 == queryset_filter(q7, remote_only_matches(rows, GET))
         IN  queryset_filter(q8, featured_only_matches(rows, GET))

\* self.request.GET.get('keyword').strip(): the text parameters of the model
\* carry no surrounding blanks
raw_keyword(GET) == IF GET.keyword = None THEN <<>> ELSE GET.keyword

\* the branch of the sort_by chain a request takes
sort_branch(GET) ==
    IF GET.sort_by \in {"newest", "salary_high", "salary_low", "deadline"} THEN GET.sort_by
    ELSE IF GET.sort_by = "relevance" /\ raw_keyword(GET) # <<>> THEN "relevance"
    ELSE "newest"

\* a nullable column as sort keys, ascending: the database counts NULL as
\* smaller than every value, so NULL sorts before every value
NullsFirst(column) == IF column = None THEN <<0, 0>> ELSE <<1, column[1]>>

\* the same descending: NULL sorts after every value
DescNullsLast_ascending(column) == IF column = None THEN <<1, 0>> ELSE <<0, column[1]>>

DescNullsLast(column) == IF column = None THEN <<1, 0>> ELSE <<0, 0 - column[1]>>

\* annotate(relevance=Count('id', filter=Q(title__icontains=keyword))): the
\* rows of the group, one per posting, whose title holds the keyword
relevance(row, keyword) == IF icontains(row.title, keyword) THEN 1 ELSE 0

\* the order_by(...) columns of a row as a tuple to be sorted ascending
sort_key(rows, j, GET) ==
    LET row == rows[j]
        branch == sort_branch(GET)
    IN  CASE branch = "newest" -> <<0 - row.created_at>>
          [] branch = "salary_high" ->
                 DescNullsLast(row.salary_range_max) \o DescNullsLast(row.salary_range_min)
          [] branch = "salary_low" ->
                 NullsFirst(row.salary_range_min) \o NullsFirst(row.salary_range_max)
          [] branch = "deadline" -> NullsFirst(row.application_deadline)
          [] branch = "relevance" ->
                 <<0 - relevance(row, raw_keyword(GET)), 0 - row.created_at>>

\* tuple a sorts no later than tuple b
LexLeq(a, b) ==
    \/ a = b
    \/ \E i \in DOMAIN a : a[i] < b[i] /\ \A k \in 1..(i - 1) : a[k] = b[k]

\* queryset.order_by(...): every listing of the rows S in which no row
\* stands before one with a smaller sort key; rows with equal sort keys come
\* in any order
RECURSIVE order_by(_, _, _)
order_by(rows, S, GET) ==
    IF S = {} THEN {<<>>}
    ELSE LET first == {x \in S : \A y \in S :
                          LexLeq(sort_key(rows, x, GET), sort_key(rows, y, GET))}
         IN  UNION {{<<x>> \o rest : rest \in order_by(rows, S \ {x}, GET)} : x \in first}

\* JobListView.get_queryset: the possible result lists
get_queryset(rows, GET, t, t2) == order_by(rows, filtered_queryset(rows, GET, t, t2), GET)

\* timezone.now() read again later in the same request: the same instant
\* or the next
LaterReads(t) == {t, t + 1}

\* the second reading of the clock, taken only in the posted_within branch
posted_within_now(GET, t) ==
    IF form_is_valid(GET) /\ GET.posted_within # "" THEN LaterReads(t) ELSE {t}

\* JobListView.paginate_by
paginate_by == 12

\* Paginator.num_pages: ceil(max(1, count) / per_page); an empty listing has
\* one page, which is empty (allow_empty_first_page)
num_pages(count) ==
    ((IF count < 1 THEN 1 ELSE count) + paginate_by - 1) \div paginate_by

\* Paginator.page(number).object_list: the slice [bottom:top] of the ordered
\* queryset, with top bounded by the count the paginator took (orphans = 0).
\* The slice is a query of its own (LIMIT top - bottom OFFSET bottom), run
\* when the template iterates the page
page_of(p, number, count) ==
    LET bottom == (number - 1) * paginate_by
        top == IF number * paginate_by >= count THEN count ELSE number * paginate_by
        last == IF top < Len(p) THEN top ELSE Len(p)
    IN  IF bottom >= last THEN <<>> ELSE SubSeq(p, bottom + 1, last)

SearchRequest(GET) == [view |-> "job_list", method |-> "GET", GET |-> GET]

\* the pages a visitor has received so far; None for a page not yet seen
PageNumbers == 1..3

SeenPages == IF probe.op = "pages" THEN probe.seen ELSE [n \in PageNumbers |-> None]

\* GET of the job list, with ?page=number (page = <<number>>) or without
\* (page = None: the first page), up to Paginator.page(number):
\* get_queryset builds the query and reads the clock, the paginator runs
\* SELECT COUNT(*) and validates the page number against it (EmptyPage is
\* answered 404).  The rows are not selected yet: the request holds the
\* query, the clock readings and the count
JobListView_get(r, GET, page) ==
    /\ inflight[r].pc = "waiting"
    /\ \E t2 \in posted_within_now(GET, now) :
          LET number == IF page = None THEN 1 ELSE page[1]
              count == Cardinality(filtered_queryset(jobs, GET, now, t2))
              held == [kind |-> "job_list", GET |-> GET, at |-> now, at2 |-> t2,
                       count |-> count, page |-> number, paged |-> page # None]
          IN  IF number > num_pages(count)
              THEN /\ inflight' = [inflight EXCEPT ![r] = [pc |-> "refused"] @@ held]
                   /\ request' = SearchRequest(GET)
                   /\ response' = [view |-> "job_list", status |-> 404,
                                   outcome |-> "invalid_page", at |-> now, at2 |-> t2,
                                   page |-> number, jobs |-> <<>>]
              ELSE /\ inflight' = [inflight EXCEPT ![r] = [pc |-> "counted"] @@ held]
                   /\ UNCHANGED <<request, response>>
    /\ UNCHANGED <<now, jobs, applications, event_logs, subscriptions, probe, cache>>

\* render_to_response: the template iterates page_obj, which runs the
\* SELECT of the slice on the store as it is by then, with the clock
\* readings the query was built with and the count taken before
JobListView_render(r) ==
    LET req == inflight[r]
    IN  /\ req.pc = "counted" /\ req.kind = "job_list"
        /\ \E p \in get_queryset(jobs, req.GET, req.at, req.at2) :
              LET page == page_of(p, req.page, req.count)
              IN  /\ response' = IF req.paged
                                 THEN [view |-> "job_list", status |-> 200, outcome |-> "ok",
                                       at |-> req.at, at2 |-> req.at2, page |-> req.page,
                                       jobs |-> page]
                                 ELSE [view |-> "job_list", status |-> 200, outcome |-> "ok",
                                       at |-> req.at, at2 |-> req.at2, jobs |-> page]
                  /\ probe' = IF req.paged
                              THEN [op |-> "pages",
                                    seen |-> [SeenPages EXCEPT ![req.page] = page]]
                              ELSE probe
        /\ request' = SearchRequest(req.GET)
        /\ inflight' = [inflight EXCEPT ![r] = [req EXCEPT !.pc = "done"]]
        /\ UNCHANGED <<now, jobs, applications, event_logs, subscriptions, cache>>

(***************************************************************************)
(* Visibility: two postings in any status, published or not, searched      *)
(* without filters.                                                        *)
(***************************************************************************)
SearchJobIds == {1, 2}

VisibilityJobs ==
    {SearchJob(st, p, c, c, <<"A", "b">>, <<"p", "u", "n", "e">>, FALSE, "full_time", "mid", 1,
               None, None, FALSE) :
        st \in IntakeJobStatuses, p \in OptTimes, c \in Times}

InitSearch ==
    /\ now = 0
    /\ jobs \in [SearchJobIds -> VisibilityJobs]
    /\ applications = <<>>
    /\ event_logs = <<>>
    /\ subscriptions = <<>>
    /\ request = NoRequest
    /\ response = NoResponse
    /\ probe = NoProbe
    /\ inflight = [r \in {1} |-> Waiting]
    /\ cache = NoCache

\* a search without filters, with sort_by absent or newest
PlainSearches == {[NoFilters EXCEPT !.sort_by = sb] : sb \in {"", "newest"}}

NextSearch ==
    \/ Tick
    \/ inflight[1].pc = "waiting" /\ \E GET \in PlainSearches : JobListView_get(1, GET, None)
    \/ JobListView_render(1)
    \/ \E sel \in SUBSET SearchJobIds : JobOpeningAdmin_publish_jobs(sel)
    \/ \E sel \in SUBSET SearchJobIds : JobOpeningAdmin_close_positions(sel)

SpecSearch == InitSearch /\ [][NextSearch]_vars

\* the base visibility predicate of the specification
Visible(row, t) ==
    row.status = "open" /\ (row.published_date = None \/ row.published_date[1] <= t)

\* C18: a search without filters returns exactly the postings that are open
\* and whose published timestamp is absent or not after the time of the
\* search, the newer before the older.
C18_EmptySearchReturnsVisibleNewestFirst ==
    (response.view = "job_list" /\ request.GET = [NoFilters EXCEPT !.sort_by = request.GET.sort_by])
        => /\ Range(response.jobs) = {j \in DOMAIN jobs : Visible(jobs[j], response.at)}
           /\ \A i, k \in DOMAIN response.jobs :
                 i < k => jobs[response.jobs[i]].created_at >= jobs[response.jobs[k]].created_at

(***************************************************************************)
(* Filters: one visible posting with every combination of the columns the  *)
(* filters read, searched with every combination of filters.               *)
(***************************************************************************)
FilterJobs ==
    {SearchJob("open", <<0>>, 0, posted, title, location, remote, job_type, level, category,
               salary[1], salary[2], featured) :
        posted \in {-1, 0}, title \in {<<"A", "b">>, <<"b">>},
        location \in {<<"p", "u", "n", "e">>, <<"d", "e", "l", "h", "i">>},
        remote \in BOOLEAN, job_type \in {"full_time", "part_time"},
        level \in {"mid", "senior"}, category \in ActiveCategories,
        salary \in {<<None, None>>, <<<<200000>>, <<300000>>>>}, featured \in BOOLEAN}

\* the requests of the model: each filter absent or set; the keyword "["
\* stands in the JSON text of every posting; "bogus" is an employment type
\* outside the declared choices
FilterSets ==
    {[keyword |-> kw, location |-> loc, job_type |-> jt, experience_level |-> lv,
      category |-> cat, salary_range |-> sr, posted_within |-> pw,
      remote_only |-> ro, featured_only |-> fo, sort_by |-> ""] :
        kw \in {None, <<"a">>, <<"[">>},
        loc \in {None, <<"p", "u", "n", "e">>, <<"r", "e", "m", "o", "t", "e">>},
        jt \in {{}, {"full_time"}, {"bogus"}},
        lv \in {{}, {"senior"}}, cat \in {{}, {1}},
        sr \in {"", "0-300000"}, pw \in {"", "1"},
        ro \in BOOLEAN, fo \in BOOLEAN}

InitFilter ==
    /\ now = 0
    /\ jobs \in [JobIds -> FilterJobs]
    /\ applications = <<>>
    /\ event_logs = <<>>
    /\ subscriptions = <<>>
    /\ request = NoRequest
    /\ response = NoResponse
    /\ probe = NoProbe
    /\ inflight = [r \in {1} |-> Waiting]
    /\ cache = NoCache

NextFilter ==
    \/ inflight[1].pc = "waiting" /\ \E GET \in FilterSets : JobListView_get(1, GET, None)
    \/ JobListView_render(1)

SpecFilter == InitFilter /\ [][NextFilter]_vars

\* the filters of a search request (sort_by is not one)
FilterNames == DOMAIN NoFilters \ {"sort_by"}

\* the request carries filter f
IsSet(GET, f) == GET[f] # NoFilters[f]

\* the value of filter f is one the form declares
ValidValue(GET, f) == form_is_valid([NoFilters EXCEPT ![f] = GET[f]])

\* the request without filter f
Without(GET, f) == [g \in DOMAIN GET |-> IF g = f THEN NoFilters[g] ELSE GET[g]]

\* C19: monotonic narrowing.  The postings returned for a request are among
\* those returned for the same request without any one of its filters
\* (keyword, location, employment type, experience level, category, salary
\* bracket, posted-within, remote-only, featured-only), whatever the store
\* and whatever the filters hold.
C19_AddingAFilterNarrows ==
    response.view = "job_list"
        => \A f \in FilterNames :
              IsSet(request.GET, f)
                  => Range(response.jobs)
                        \subseteq filtered_queryset(jobs, Without(request.GET, f),
                                                     response.at, response.at2)

\* the filters of a request whose value the form rejects
InvalidFields(GET) == {f \in FilterNames : ~ValidValue(GET, f)}

\* the request with its invalid filters taken away
Degraded(GET) ==
    [g \in DOMAIN GET |-> IF g \in InvalidFields(GET) THEN NoFilters[g] ELSE GET[g]]

\* C20: a request with an invalid filter value returns what the same request
\* returns without that filter: every valid filter is still applied.
C20_InvalidFilterAloneDegrades ==
    (response.view = "job_list" /\ InvalidFields(request.GET) # {})
        => Range(response.jobs)
              = filtered_queryset(jobs, Degraded(request.GET), response.at, response.at2)

(***************************************************************************)
(* Properties of intake at the store: the unique constraint and the        *)
(* submission entry of the event log                                       *)
(***************************************************************************)
\* the response of an intake request whose application.save() met the
\* unique constraint on (email, job)
MetUniqueConstraint == IsIntakeResponse /\ response.outcome = "IntegrityError"

\* a rejection shaped as a validation error: the form page (200) or the JSON
\* error body (400), with the errors of the form
ValidationErrorShaped ==
    /\ response.status \in {200, 400}
    /\ response.outcome = "form_invalid"
    /\ response.errors # {}

\* C21: an intake request that meets the unique constraint at the store is
\* answered with a validation-error-shaped rejection, never a server fault,
\* and no two stored applications have the same email and the same job.
C21_UniqueViolationIsValidationError ==
    /\ MetUniqueConstraint => ValidationErrorShaped
    /\ \A i, k \in Stored(applications) :
          (applications[i].job = applications[k].job
              /\ applications[i].email = applications[k].email) => i = k

\* the entries of the event log that record the submission of application a
SubmissionLogs(logs, a) ==
    {k \in LogsOf(logs, a) : logs[k].event_type = "status_change"
                                /\ logs[k].description = "submitted"}

\* C22: every stored application has exactly one status_change entry in the
\* event log recording its submission, whichever view took it in.
C22_EveryApplicationHasSubmissionLog ==
    \A a \in Stored(applications) : Cardinality(SubmissionLogs(event_logs, a)) = 1

(***************************************************************************)
(* admin.py: JobOpeningAdmin and its bulk actions on postings.  Here the   *)
(* store of postings is a sequence (pk = index) and a posting carries its  *)
(* identity columns: title, reference_id and slug.  A reference_id is the  *)
(* sequence of its parts (<<"JA", 1>>, then <<"JA", 1, "-COPY">>), a     *)
(* title likewise, and a slug is the base slugify() gave it with the       *)
(* index _generate_unique_slug appended (0 for none).                      *)
(***************************************************************************)
\* the primary keys the store of postings hands out
PostingIds == {1, 2}

PostingTitles == {<<"clerk">>}

\* slugify(f"{title}-{reference_id}")
slugify(title, reference_id) == <<title, reference_id>>

\* JobOpening._generate_unique_slug: the first candidate no other row holds
_generate_unique_slug(rows, pk, base) ==
    LET taken(n) == \E i \in Stored(rows) \ {pk} : rows[i].slug = [base |-> base, index |-> n]
        first == CHOOSE n \in 0..Len(rows) : ~taken(n) /\ \A m \in 0..(n - 1) : taken(m)
    IN  [base |-> base, index |-> first]

\* the uuid4 part of a generated reference_id: fresh for every row
fresh_reference_id(rows) == <<"JA", Len(rows) + 1>>

\* a JobOpening instance with the defaults of its fields; posted_date is
\* auto_now_add and is stamped by the INSERT
JobOpening_defaults(title) ==
    [title |-> title, reference_id |-> None, slug |-> None, status |-> "draft",
     priority |-> "normal", posted_date |-> None,
     published_date |-> None, closed_date |-> None,
     views_count |-> 0, applications_count |-> 0, conversion_rate |-> 0]

\* JobOpening.save before super().save(): reference_id and slug are filled
\* in when empty.  pk is the primary key of the instance, 0 when it has none
JobOpening_save(rows, pk, instance) ==
    LET referenced == IF instance.reference_id = None
                      THEN [instance EXCEPT !.reference_id = fresh_reference_id(rows)]
                      ELSE instance
    IN  IF referenced.slug = None
        THEN [referenced EXCEPT
                 !.slug = _generate_unique_slug(rows, pk, slugify(referenced.title,
                                                                  referenced.reference_id))]
        ELSE referenced

\* the INSERT of super().save(): slug and reference_id are unique=True
insert_raises(rows, row) ==
    \E i \in Stored(rows) :
        rows[i].slug = row.slug \/ rows[i].reference_id = row.reference_id

\* the row the INSERT stores: auto_now_add stamps posted_date
inserted(row, t) == [row EXCEPT !.posted_date = t]

\* the body of the loop of duplicate_jobs: the instance before job.save()
duplicate_of(job) ==
    [job EXCEPT !.reference_id = Append(@, "-COPY"),
                !.title = Append(@, "(Copy)"),
                !.status = "draft",
                !.views_count = 0, !.applications_count = 0, !.conversion_rate = 0]

\* the place of a priority in the order of the column, which holds text
PriorityRank(priority) ==
    CASE priority = "high" -> 1
      [] priority = "low" -> 2
      [] priority = "normal" -> 3
      [] priority = "urgent" -> 4

\* row i comes before row k in the changelist queryset: Meta.ordering
\* ['-priority', '-posted_date'], made total by the changelist with '-pk'
comes_before(rows, i, k) ==
    LET a == <<PriorityRank(rows[i].priority), rows[i].posted_date, i>>
        b == <<PriorityRank(rows[k].priority), rows[k].posted_date, k>>
    IN  \/ a[1] > b[1]
        \/ a[1] = b[1] /\ a[2] > b[2]
        \/ a[1] = b[1] /\ a[2] = b[2] /\ a[3] >= b[3]

\* the selected rows in the order the queryset of the action yields them
RECURSIVE queryset_order(_, _)
queryset_order(rows, S) ==
    IF S = {} THEN <<>>
    ELSE LET first == CHOOSE i \in S : \A k \in S : comes_before(rows, i, k)
         IN  <<first>> \o queryset_order(rows, S \ {first})

\* the values typed into the add and change forms of JobOpeningAdmin
PostingStatusInputs == {"draft", "open", "closed"}

PriorityInputs == {"normal", "urgent"}

\* a slug and a reference_id typed by hand
TypedSlug == [base |-> <<"my-slug">>, index |-> 0]

TypedReference == <<"JA-7">>

\* ModelForm validation of the forms of JobOpeningAdmin: validate_unique
\* finds no other row with the typed slug or reference_id
posting_form_errors(rows, pk, instance) ==
    (IF instance.slug # None /\ \E i \in Stored(rows) \ {pk} : rows[i].slug = instance.slug
     THEN {"slug_exists"} ELSE {})
    \cup (IF instance.reference_id # None
             /\ \E i \in Stored(rows) \ {pk} : rows[i].reference_id = instance.reference_id
          THEN {"reference_id_exists"} ELSE {})

PostingFormResponse(view, errors) ==
    [view |-> view, status |-> IF errors = {} THEN 302 ELSE 200,
     outcome |-> IF errors = {} THEN "ok" ELSE "form_invalid"]

\* the add forms that set the status or the dates, the other fields left
\* blank
StatusAdds(t) ==
    {[status |-> st] : st \in PostingStatusInputs}
        \cup {[published_date |-> <<t>>, closed_date |-> <<t>>]}


\* the add form of JobOpeningAdmin: the posting is stored with the posted
\* values (the defaults are draft and normal; slug and reference_id are
\* generated by JobOpening.save() when left blank) and response_add redirects
JobOpening_create(title, posted) ==
    LET instance == [f \in DOMAIN JobOpening_defaults(title) |->
                        IF f \in DOMAIN posted THEN posted[f]
                        ELSE JobOpening_defaults(title)[f]]
        errors == posting_form_errors(jobs, 0, instance)
        row == JobOpening_save(jobs, 0, instance)
    IN  /\ request' = [view |-> "create", method |-> "POST"]
        /\ response' = PostingFormResponse("create", errors)
        /\ IF errors = {}
           THEN /\ Len(jobs) + 1 \in PostingIds
                /\ jobs' = Append(jobs, inserted(row, now))
           ELSE UNCHANGED jobs
        /\ UNCHANGED <<now, applications, event_logs, subscriptions, probe, inflight, cache>>

\* a title typed over the stored one
TypedTitle == <<"typist">>

\* the change forms that edit the status or a date: the row as stored with
\* one field edited (or status and published_date together); the fields a
\* form names are the edited ones
StatusEdits(t) ==
    {[status |-> st] : st \in PostingStatusInputs}
        \cup {[published_date |-> None], [closed_date |-> None]}
        \cup {[status |-> "open", published_date |-> <<t>>]}

\* the change forms that edit an identity column: a slug typed or blanked
\* (blank=True: JobOpening.save() generates it again), a reference_id typed,
\* a title typed
IdentityEdits ==
    {[slug |-> TypedSlug], [slug |-> None], [reference_id |-> TypedReference],
     [title |-> TypedTitle]}

\* the change forms that edit an identity column or the priority
PostingEdits == IdentityEdits \cup {[priority |-> pr] : pr \in PriorityInputs}

\* POST to the change form of JobOpeningAdmin: save_model calls
\* JobOpening.save() on the instance with the posted values, then
\* save_related saves JobApplicationInline, which deletes the applications
\* whose DELETE box is ticked (and, by CASCADE, their event-log rows).  Every
\* field of the fieldsets is editable but the counters, posted_date and
\* created_at
JobOpeningAdmin_change(j, posted, ticked) ==
    LET instance == [f \in DOMAIN jobs[j] |->
                        IF f \in DOMAIN posted THEN posted[f] ELSE jobs[j][f]]
        errors == IF "slug" \in DOMAIN instance THEN posting_form_errors(jobs, j, instance)
                  ELSE {}
        row == IF "slug" \in DOMAIN instance THEN JobOpening_save(jobs, j, instance)
               ELSE instance
        left == delete_applications(applications, event_logs, ticked)
    IN  /\ j \in Stored(jobs)
        /\ ticked \subseteq ApplicationsOf(applications, j)
        /\ request' = [view |-> "change", method |-> "POST"]
        /\ response' = PostingFormResponse("change", errors)
        /\ IF errors = {}
           THEN /\ jobs' = [jobs EXCEPT ![j] = row]
                /\ applications' = left.applications
                /\ event_logs' = left.event_logs
           ELSE UNCHANGED <<jobs, applications, event_logs>>
        /\ UNCHANGED <<now, subscriptions, probe, inflight, cache>>

\* the forms of the changelist formset (list_editable = ['priority']) that
\* has_changed() tells changed: formset.is_valid() loads the listed rows and
\* gives each form the instance of its row with the posted priority
changed_forms(rows, priorities) ==
    [i \in {k \in DOMAIN priorities : priorities[k] # rows[k].priority} |->
        [rows[i] EXCEPT !.priority = priorities[i]]]

\* POST to the changelist of JobOpeningAdmin up to formset.is_valid(): the
\* SELECT of the listed rows.  With no form changed the request is answered;
\* otherwise the instances are held and other requests run before the saves.
\* The forms come in the order of the POST, which is the order of the page
\* the client rendered: the queryset order at the time of its GET, when the
\* priorities may have been others.  in_transaction tells whether the
\* release of the framework runs the loop inside transaction.atomic
JobOpeningAdmin_changelist(r, priorities, queue, in_transaction) ==
    LET forms == changed_forms(jobs, priorities)
    IN  /\ inflight[r].pc = "waiting"
        /\ DOMAIN priorities = Stored(jobs) /\ Stored(jobs) # {}
        /\ queue \in Orderings(DOMAIN forms)
        /\ IF DOMAIN forms = {}
           THEN /\ request' = [view |-> "changelist", method |-> "POST"]
                /\ response' = [view |-> "changelist", status |-> 302, outcome |-> "ok"]
                /\ UNCHANGED inflight
           ELSE /\ inflight' = [inflight EXCEPT ![r] =
                                  [pc |-> "loaded", kind |-> "changelist", forms |-> forms,
                                   queue |-> queue, in_transaction |-> in_transaction]]
                /\ UNCHANGED <<request, response>>
        /\ UNCHANGED <<now, jobs, applications, event_logs, subscriptions, probe, cache>>

\* the loop of changelist_view over the changed forms: save_model calls
\* obj.save(), which writes every column of the held instance to the row of
\* its pk (an UPDATE, or an INSERT stamped by auto_now_add when the row is
\* gone); the UNIQUE indexes on slug and reference_id refuse the write with
\* IntegrityError when another row holds the value by then
RECURSIVE changelist_save_loop(_, _, _, _)
changelist_save_loop(rows, forms, queue, t) ==
    IF queue = <<>> THEN [rows |-> rows, raised |-> FALSE]
    ELSE LET pk == Head(queue)
             obj == JobOpening_save(rows, pk, forms[pk])
         IN  IF \E k \in Stored(rows) \ {pk} :
                    rows[k].slug = obj.slug \/ rows[k].reference_id = obj.reference_id
             THEN [rows |-> rows, raised |-> TRUE]
             ELSE changelist_save_loop(
                      [rows EXCEPT ![pk] = IF rows[pk] = None THEN inserted(obj, t) ELSE obj],
                      forms, Tail(queue), t)

\* POST to the changelist from the loop on.  Inside transaction.atomic the
\* loop is one step and an IntegrityError undoes the saves made before it.
\* Otherwise every obj.save() commits on its own: the step is one save,
\* other requests run before the next, and the saves made before an
\* IntegrityError stay
JobOpeningAdmin_changelist_save(r) ==
    LET req == inflight[r]
        saves == IF req.in_transaction THEN req.queue ELSE <<Head(req.queue)>>
        rest == IF req.in_transaction THEN <<>> ELSE Tail(req.queue)
        out == changelist_save_loop(jobs, req.forms, saves, now)
    IN  /\ req.pc = "loaded" /\ req.kind = "changelist"
        /\ jobs' = IF out.raised /\ req.in_transaction THEN jobs ELSE out.rows
        /\ request' = [view |-> "changelist", method |-> "POST"]
        /\ IF out.raised
           THEN /\ response' = [view |-> "changelist", status |-> 500,
                                outcome |-> "IntegrityError"]
                /\ inflight' = [inflight EXCEPT ![r] = Waiting]
           ELSE IF rest = <<>>
           THEN /\ response' = [view |-> "changelist", status |-> 302, outcome |-> "ok"]
                /\ inflight' = [inflight EXCEPT ![r] = Waiting]
           ELSE /\ inflight' = [inflight EXCEPT ![r] = [req EXCEPT !.queue = rest]]
                /\ UNCHANGED response
        /\ UNCHANGED <<now, applications, event_logs, subscriptions, probe, cache>>

\* Collector.collect for the selected postings: the applications that
\* point at them (on_delete=CASCADE), selected and held by primary key
collect(apps, selected) == {a \in Stored(apps) : apps[a].job \in selected}

\* Collector.delete: the event-log rows of the collected applications (a
\* DELETE by application_id), the collected applications and the selected
\* postings (DELETEs by primary key)
delete_postings(rows, apps, logs, selected, collected) ==
    LET left == delete_applications(apps, logs, collected)
    IN  [jobs |-> [i \in DOMAIN rows |-> IF i \in selected THEN None ELSE rows[i]],
         applications |-> left.applications, event_logs |-> left.event_logs]

\* the check of the foreign key job_id, deferred to COMMIT: an application
\* points at a posting that is gone
foreign_key_fails(rows, apps) ==
    \E a \in Stored(apps) : apps[a].job \in DOMAIN rows /\ rows[apps[a].job] = None

\* the delete_selected action of JobOpeningAdmin (and its delete view): the
\* first POST is answered with the confirmation page; the POST that carries
\* post=yes runs queryset.delete(), which starts with Collector.collect.
\* The action runs in autocommit: other requests commit before the DELETEs
JobOpeningAdmin_delete_selected(r, selected, confirmed) ==
    /\ inflight[r].pc = "waiting"
    /\ selected # {} /\ selected \subseteq Stored(jobs)
    /\ IF confirmed
       THEN /\ inflight' = [inflight EXCEPT ![r] =
                              [pc |-> "collected", kind |-> "delete_selected",
                               selected |-> selected,
                               collected |-> collect(applications, selected)]]
            /\ UNCHANGED <<request, response>>
       ELSE /\ request' = AdminRequest("delete_selected", selected)
            /\ response' = [view |-> "delete_selected", status |-> 200,
                            outcome |-> "confirmation"]
            /\ UNCHANGED inflight
    /\ UNCHANGED <<now, jobs, applications, event_logs, subscriptions, probe, cache>>

\* Collector.delete inside transaction.atomic: the DELETEs, then COMMIT.  An
\* application stored for a selected posting since the collect keeps its
\* job_id: the COMMIT raises IntegrityError and the DELETEs are rolled back
JobOpeningAdmin_delete_queryset(r) ==
    LET req == inflight[r]
        left == delete_postings(jobs, applications, event_logs, req.selected, req.collected)
        raised == foreign_key_fails(left.jobs, left.applications)
    IN  /\ req.pc = "collected" /\ req.kind = "delete_selected"
        /\ request' = AdminRequest("delete_selected", req.selected)
        /\ IF raised
           THEN /\ response' = [view |-> "delete_selected", status |-> 500,
                                outcome |-> "IntegrityError"]
                /\ UNCHANGED <<jobs, applications, event_logs>>
           ELSE /\ jobs' = left.jobs
                /\ applications' = left.applications
                /\ event_logs' = left.event_logs
                /\ response' = [view |-> "delete_selected", status |-> 302, outcome |-> "ok"]
        /\ inflight' = [inflight EXCEPT ![r] = Waiting]
        /\ UNCHANGED <<now, subscriptions, probe, cache>>

\* the postings a store of the model holds at most, copies included
MaxPostings == 4

\* duplicate_jobs up to the body of the loop: `for job in queryset` runs the
\* SELECT of the selected rows, and the request holds the instances
JobOpeningAdmin_duplicate_jobs(r, selected) ==
    /\ inflight[r].pc = "waiting"
    /\ selected # {} /\ selected \subseteq Stored(jobs)
    /\ Len(jobs) + Cardinality(selected) <= MaxPostings
    /\ inflight' = [inflight EXCEPT ![r] =
                      [pc |-> "loaded", kind |-> "duplicate_jobs", selected |-> selected,
                       originals |-> [i \in selected |-> jobs[i]],
                       queue |-> queryset_order(jobs, selected), count |-> 0]]
    /\ UNCHANGED <<now, jobs, applications, event_logs, subscriptions, request, response,
                   probe, cache>>

\* one pass of the loop of duplicate_jobs: the copy is made of the held
\* instance and job.save() INSERTs it and commits.  An IntegrityError ends
\* the request, the copies stored before it stay; after the last copy the
\* request is answered with the count
JobOpeningAdmin_duplicate_jobs_save(r) ==
    LET req == inflight[r]
        copy == JobOpening_save(jobs, 0, duplicate_of(req.originals[Head(req.queue)]))
        rest == Tail(req.queue)
    IN  /\ req.pc = "loaded" /\ req.kind = "duplicate_jobs"
        /\ request' = AdminRequest("duplicate_jobs", req.selected)
        /\ IF insert_raises(jobs, copy)
           THEN /\ response' = [view |-> "duplicate_jobs", status |-> 500,
                                outcome |-> "IntegrityError"]
                /\ inflight' = [inflight EXCEPT ![r] = Waiting]
                /\ UNCHANGED jobs
           ELSE /\ jobs' = Append(jobs, inserted(copy, now))
                /\ IF rest = <<>>
                   THEN /\ response' = [view |-> "duplicate_jobs", status |-> 302,
                                        outcome |-> "ok", count |-> req.count + 1]
                        /\ inflight' = [inflight EXCEPT ![r] = Waiting]
                   ELSE /\ inflight' = [inflight EXCEPT ![r] =
                                          [req EXCEPT !.queue = rest, !.count = @ + 1]]
                        /\ UNCHANGED response
        /\ UNCHANGED <<now, applications, event_logs, subscriptions, probe, cache>>

\* the life of the postings of an empty store, at either instant of the
\* clock: the add and change forms that set status and dates, the bulk
\* actions, and the delete and duplicate actions statement by statement
InitPosting ==
    /\ now \in Times
    /\ jobs = <<>>
    /\ applications = <<>>
    /\ event_logs = <<>>
    /\ subscriptions = <<>>
    /\ request = NoRequest
    /\ response = NoResponse
    /\ probe = NoProbe
    /\ inflight = [r \in {1} |-> Waiting]
    /\ cache = NoCache

NextPosting ==
    \/ \E title \in PostingTitles, posted \in StatusAdds(now) :
          JobOpening_create(title, posted)
    \/ \E j \in PostingIds, posted \in StatusEdits(now) :
          JobOpeningAdmin_change(j, posted, {})
    \/ \E sel \in SUBSET PostingIds, confirmed \in BOOLEAN :
          JobOpeningAdmin_delete_selected(1, sel, confirmed)
    \/ JobOpeningAdmin_delete_queryset(1)
    \/ \E sel \in SUBSET PostingIds : JobOpeningAdmin_publish_jobs(sel)
    \/ \E sel \in SUBSET PostingIds : JobOpeningAdmin_close_positions(sel)
    \/ \E sel \in SUBSET PostingIds : JobOpeningAdmin_duplicate_jobs(1, sel)
    \/ JobOpeningAdmin_duplicate_jobs_save(1)

SpecPosting == InitPosting /\ [][NextPosting]_vars

\* a posting saved through JobOpening.save() at instant 0 with the n-th
\* generated reference_id
StoredPosting(title, n) ==
    inserted(JobOpening_save(<<>>, 0, [JobOpening_defaults(title)
                                         EXCEPT !.reference_id = <<"JA", n>>]), 0)

\* the change forms and the changelist on a store of two such postings: the
\* first is edited in every column of PostingEdits and may be deleted, the
\* second has its slug typed or blanked, and the statements of a changelist
\* POST run between those requests
InitPostingForm ==
    /\ StoreWith({1, 2})
    /\ jobs = <<StoredPosting(<<"clerk">>, 1), StoredPosting(<<"clerk">>, 2)>>

NextPostingForm ==
    \/ \E posted \in PostingEdits : JobOpeningAdmin_change(1, posted, {})
    \/ \E posted \in {[slug |-> TypedSlug], [slug |-> None]} :
          JobOpeningAdmin_change(2, posted, {})
    \/ \E priorities \in UNION {[S -> PriorityInputs] : S \in SUBSET PostingIds},
          queue \in UNION {Orderings(S) : S \in SUBSET PostingIds},
          in_transaction \in BOOLEAN :
          JobOpeningAdmin_changelist(1, priorities, queue, in_transaction)
    \/ JobOpeningAdmin_changelist_save(1)
    \/ JobOpeningAdmin_delete_selected(2, {1}, TRUE)
    \/ JobOpeningAdmin_delete_queryset(2)

SpecPostingForm == InitPostingForm /\ [][NextPostingForm]_vars

(***************************************************************************)
(* Duplication: a posting that was opened, viewed and applied to, and a    *)
(* draft; the duplicate_jobs action on them and on their copies while the  *)
(* change form of the first and the delete action run between its          *)
(* statements.                                                             *)
(***************************************************************************)
\* every primary key of a store with copies
CopyIds == 1..MaxPostings

InitDuplicate ==
    /\ StoreWith({1, 2})
    /\ jobs = <<[StoredPosting(<<"clerk">>, 1)
                    EXCEPT !.status = "open", !.views_count = 1, !.applications_count = 1,
                           !.conversion_rate = QuantizedRate(1, 1)],
                StoredPosting(<<"clerk">>, 2)>>

NextDuplicate ==
    \/ \E posted \in IdentityEdits : JobOpeningAdmin_change(1, posted, {})
    \/ \E sel \in SUBSET PostingIds, confirmed \in BOOLEAN :
          JobOpeningAdmin_delete_selected(2, sel, confirmed)
    \/ JobOpeningAdmin_delete_queryset(2)
    \/ \E sel \in SUBSET CopyIds : JobOpeningAdmin_duplicate_jobs(1, sel)
    \/ JobOpeningAdmin_duplicate_jobs_save(1)

SpecDuplicate == InitDuplicate /\ [][NextDuplicate]_vars

(***************************************************************************)
(* Deletion under intake: an open posting is deleted in the admin while    *)
(* visitors view it and apply to it through both forms.                    *)
(***************************************************************************)
\* the requests of the visitors, and the request of the admin
Visitors == 1..(MaxRequests - 1)

AdminSlot == MaxRequests

InitDelete ==
    /\ StoreWith(Visitors \cup {AdminSlot})
    /\ jobs = [j \in JobIds |-> OpenJob]

NextDelete ==
    \/ \E r \in Visitors, kind \in IntakeKinds, j \in JobIds : get_object(r, kind, j)
    \/ \E r \in Visitors : JobDetailView_increment_views(r)
    \/ \E r \in Visitors, e \in Emails, session \in BOOLEAN :
          JobApplicationCreateView_post(r, e, TRUE, TRUE, ADMIN_EMAILS, TRUE, session, 0, 0)
    \/ \E r \in Visitors, e \in Emails : QuickApplyView_post(r, e, TRUE, TRUE)
    \/ \E sel \in SUBSET JobIds, confirmed \in BOOLEAN :
          JobOpeningAdmin_delete_selected(AdminSlot, sel, confirmed)
    \/ JobOpeningAdmin_delete_queryset(AdminSlot)

SpecDelete == InitDelete /\ [][NextDelete]_vars

\* the step is the handling of a request to the named admin action
AdminStep(view) == request'.view = view /\ (request' # request \/ jobs' # jobs)

BulkActions == {"publish_jobs", "close_positions", "duplicate_jobs"}

\* C23: a new posting is stored in draft; a publish step turns exactly the
\* selected draft postings into open ones stamped with the clock and leaves
\* every other posting as it was; and no bulk action changes the status of a
\* posting that close_positions closed.
C23_PublishMovesDraftsAndCloseIsTerminal ==
    [][/\ \A j \in DOMAIN jobs' \ DOMAIN jobs : jobs'[j].status = "draft"
       /\ AdminStep("publish_jobs")
             => /\ DOMAIN jobs' = DOMAIN jobs
                /\ \A j \in DOMAIN jobs :
                      IF j \in request'.selected /\ jobs[j].status = "draft"
                      THEN jobs'[j] = [jobs[j] EXCEPT !.status = "open",
                                                      !.published_date = <<now>>]
                      ELSE jobs'[j] = jobs[j]
       /\ AdminStep("close_positions")
             => \A j \in request'.selected :
                   jobs'[j].status = "closed" /\ jobs'[j].closed_date = <<now>>
       /\ \A j \in Stored(jobs) \cap Stored(jobs') :
             (jobs[j].status = "closed" /\ jobs[j].closed_date # None
                 /\ \E view \in BulkActions : AdminStep(view))
                 => jobs'[j].status = "closed"]_vars

\* no two postings of the store share a reference_id or a slug
IdentityIsUnique(rows) ==
    \A i, k \in Stored(rows) :
        i # k => rows[i].reference_id # rows[k].reference_id /\ rows[i].slug # rows[k].slug

\* the step ends a duplicate_jobs request
DuplicateAnswered ==
    \E r \in DOMAIN inflight :
        /\ inflight[r].pc = "loaded" /\ inflight[r].kind = "duplicate_jobs"
        /\ inflight'[r].pc = "waiting"

\* C29: a duplicate_jobs request stores one copy per selected posting and
\* ends with the redirect; every step of it adds at most one posting, in
\* draft with its three counters at 0, leaves the postings already stored as
\* they were, and keeps reference_id and slug unique across the store.
C29_DuplicateAddsOneDraftPerSelected ==
    [][AdminStep("duplicate_jobs")
          => /\ DuplicateAnswered
                   => /\ response'.status = 302
                      /\ response'.count = Cardinality(request'.selected)
             /\ Len(jobs') <= Len(jobs) + 1
             /\ \A j \in DOMAIN jobs' \ DOMAIN jobs :
                   /\ jobs'[j].status = "draft"
                   /\ jobs'[j].views_count = 0
                   /\ jobs'[j].applications_count = 0
                   /\ jobs'[j].conversion_rate = 0
             /\ \A j \in DOMAIN jobs : jobs'[j] = jobs[j]
             /\ IdentityIsUnique(jobs')]_vars

(***************************************************************************)
(* Salary brackets: one visible posting with salaries on, between and      *)
(* beyond the limits of the brackets, searched with every bracket tag, a   *)
(* tag the form does not declare, and with or without another filter.      *)
(***************************************************************************)
SalaryAmounts == {200000, 300000, 500000, 600000, 1200000, 2400000, 3000000}

\* salary_range_min and salary_range_max of a posting: each NULL or an amount
SalaryPairs ==
    {<<None, None>>}
        \cup {<<<<lo>>, None>> : lo \in SalaryAmounts}
        \cup {<<None, <<hi>>>> : hi \in SalaryAmounts}
        \cup {<<<<p[1]>>, <<p[2]>>>> :
                 p \in {q \in SalaryAmounts \X SalaryAmounts : q[1] <= q[2]}}

SalaryJobs ==
    {SearchJob("open", <<0>>, 0, 0, <<"A", "b">>, <<"p", "u", "n", "e">>, FALSE, "full_time",
               "mid", 1, salary[1], salary[2], FALSE) : salary \in SalaryPairs}

SalaryRequests ==
    {[NoFilters EXCEPT !.salary_range = sr, !.job_type = jt] :
        sr \in SALARY_RANGE_CHOICES \cup {"1-2"}, jt \in {{}, {"full_time"}, {"bogus"}}}

InitSalary ==
    /\ now = 0
    /\ jobs \in [JobIds -> SalaryJobs]
    /\ applications = <<>>
    /\ event_logs = <<>>
    /\ subscriptions = <<>>
    /\ request = NoRequest
    /\ response = NoResponse
    /\ probe = NoProbe
    /\ inflight = [r \in {1} |-> Waiting]
    /\ cache = NoCache

NextSalary ==
    \/ inflight[1].pc = "waiting" /\ \E GET \in SalaryRequests : JobListView_get(1, GET, None)
    \/ JobListView_render(1)

SpecSalary == InitSalary /\ [][NextSalary]_vars

\* the limits of a bracket tag as the form labels it; None for no limit
BracketLimits(tag) ==
    CASE tag = "0-300000" -> [lo |-> None, hi |-> <<300000>>]
      [] tag = "300000-600000" -> [lo |-> <<300000>>, hi |-> <<600000>>]
      [] tag = "600000-1200000" -> [lo |-> <<600000>>, hi |-> <<1200000>>]
      [] tag = "1200000-2400000" -> [lo |-> <<1200000>>, hi |-> <<2400000>>]
      [] tag = "2400000+" -> [lo |-> <<2400000>>, hi |-> None]

BracketTags == SALARY_RANGE_CHOICES \ {""}

\* the salary of a posting lies within the limits
WithinBracket(row, limits) ==
    /\ limits.lo # None
          => row.salary_range_min # None /\ row.salary_range_min[1] >= limits.lo[1]
    /\ limits.hi # None
          => row.salary_range_max # None /\ row.salary_range_max[1] <= limits.hi[1]

\* C25: with a bracket selected, every posting returned has its minimum
\* salary at or above the lower limit and its maximum salary at or below the
\* upper limit (the lowest bracket has no lower limit, the highest no upper
\* one); with the bracket absent or not a declared tag, no posting is taken
\* away from what the request returns without it.
C25_SalaryBracketBoundsResults ==
    response.view = "job_list"
        => LET tag == request.GET.salary_range
           IN  IF tag \in BracketTags
               THEN \A j \in Range(response.jobs) :
                       WithinBracket(jobs[j], BracketLimits(tag))
               ELSE filtered_queryset(jobs, Without(request.GET, "salary_range"),
                                      response.at, response.at2)
                        \subseteq Range(response.jobs)

(***************************************************************************)
(* Sorting: two visible postings that differ in age, title, salaries and   *)
(* deadline, listed under every sort key, with and without a keyword.  The *)
(* salary columns accept negative amounts, and a deadline may lie before   *)
(* the origin of the clock.                                                *)
(***************************************************************************)
SortJobs ==
    {[SearchJob("open", <<0>>, created, created, title, <<"p", "u", "n", "e">>, FALSE,
                "full_time", "mid", 1, salary[1], salary[2], FALSE)
         EXCEPT !.application_deadline = deadline] :
        created \in {0, 1}, title \in {<<"A", "b">>, <<"A">>},
        salary \in {<<None, None>>, <<<<-100000>>, <<-50000>>>>, <<<<200000>>, <<300000>>>>,
                    <<<<200000>>, <<500000>>>>, <<<<300000>>, <<500000>>>>},
        deadline \in {None, <<-2>>, <<1>>, <<2>>}}

\* sort_by absent (""), each declared key, and a key the form does not
\* declare; the keyword absent or "b"
SortRequests ==
    {[NoFilters EXCEPT !.sort_by = sb, !.keyword = kw] :
        sb \in SORT_BY_CHOICES \cup {"", "bogus"}, kw \in {None, <<"b">>}}

InitSort ==
    /\ now = 1
    /\ jobs \in [SearchJobIds -> SortJobs]
    /\ applications = <<>>
    /\ event_logs = <<>>
    /\ subscriptions = <<>>
    /\ request = NoRequest
    /\ response = NoResponse
    /\ probe = NoProbe
    /\ inflight = [r \in {1} |-> Waiting]
    /\ cache = NoCache

NextSort ==
    \/ inflight[1].pc = "waiting" /\ \E GET \in SortRequests : JobListView_get(1, GET, None)
    \/ JobListView_render(1)

SpecSort == InitSort /\ [][NextSort]_vars

\* value a of a nullable column is not above value b; a posting without the
\* value counts as below every posting with one, as the database orders it
ColumnLeq(a, b) == a = None \/ (b # None /\ a[1] <= b[1])

\* listing p has the values of a column in ascending order, and postings
\* equal in it in ascending order of a second column
Ascending(p, column, second) ==
    \A i, k \in DOMAIN p :
        i < k => /\ ColumnLeq(jobs[p[i]][column], jobs[p[k]][column])
                 /\ jobs[p[i]][column] = jobs[p[k]][column]
                       => ColumnLeq(jobs[p[i]][second], jobs[p[k]][second])

Descending(p, column, second) ==
    \A i, k \in DOMAIN p :
        i < k => /\ ColumnLeq(jobs[p[k]][column], jobs[p[i]][column])
                 /\ jobs[p[i]][column] = jobs[p[k]][column]
                       => ColumnLeq(jobs[p[k]][second], jobs[p[i]][second])

\* listing p has the newer postings before the older
NewestPostingFirst(p) ==
    \A i, k \in DOMAIN p : i < k => jobs[p[i]].created_at >= jobs[p[k]].created_at

\* listing p has the postings whose title holds the keyword before the
\* others, and within each group the newer before the older
ByMatchCountThenNewest(p, keyword) ==
    \A i, k \in DOMAIN p :
        i < k => \/ relevance(jobs[p[i]], keyword) > relevance(jobs[p[k]], keyword)
                 \/ /\ relevance(jobs[p[i]], keyword) = relevance(jobs[p[k]], keyword)
                    /\ jobs[p[i]].created_at >= jobs[p[k]].created_at

\* C26: the listing is newest-first for an absent or undeclared sort key, for
\* newest, and for relevance without a keyword; by match count descending,
\* then newest-first, for relevance with a keyword; by salary descending
\* (maximum, then minimum) for salary_high, salary ascending (minimum, then
\* maximum) for salary_low, deadline ascending for deadline.
C26_SortKeyResolution ==
    response.view = "job_list"
        => LET p == response.jobs
               sort_by == request.GET.sort_by
               keyword == request.GET.keyword
           IN  CASE sort_by = "salary_high" ->
                        Descending(p, "salary_range_max", "salary_range_min")
                 [] sort_by = "salary_low" ->
                        Ascending(p, "salary_range_min", "salary_range_max")
                 [] sort_by = "deadline" ->
                        Ascending(p, "application_deadline", "application_deadline")
                 [] sort_by = "relevance" /\ keyword # None ->
                        ByMatchCountThenNewest(p, keyword)
                 [] OTHER -> NewestPostingFirst(p)

\* C26 witness: under salary_high a posting with a negative maximum salary
\* is listed before a newer posting without one
C26_Witness ==
    /\ response.view = "job_list"
    /\ request.GET.sort_by = "salary_high"
    /\ Len(response.jobs) = 2
    /\ jobs[response.jobs[1]].salary_range_max = <<-50000>>
    /\ jobs[response.jobs[2]].salary_range_max = None
    /\ jobs[response.jobs[1]].created_at < jobs[response.jobs[2]].created_at

(***************************************************************************)
(* Pagination: JobListView.paginate_by.  A visitor pages through a listing *)
(* of thirteen visible postings with up to three page requests of one      *)
(* search; every page request builds the query again, counts, and selects  *)
(* its slice.  The store does not change meanwhile.                        *)
(***************************************************************************)
\* one posting more than a page holds
PagePostings == 1..(paginate_by + 1)

\* posting i: created at instant i, with the given salary (in lakhs, minimum
\* and maximum alike) and deadline
PageJob(i, lakhs, deadline) ==
    [SearchJob("open", <<0>>, i, i, <<"A", "b">>, <<"p", "u", "n", "e">>, FALSE, "full_time",
               "mid", 1, <<lakhs * 100000>>, <<lakhs * 100000>>, FALSE)
        EXCEPT !.application_deadline = <<deadline>>]

\* the stores of the model that hold postings (the empty store is the other
\* one): posting i has salary i lakhs and deadline i,
\* but posting 2 may have the salary or the deadline of posting 1, and the
\* last posting those of the one before it
PageStores ==
    {[i \in PagePostings |->
         PageJob(i,
                 IF i = 2 THEN s2 ELSE IF i = paginate_by + 1 THEN sN ELSE i,
                 IF i = 2 THEN d2 ELSE IF i = paginate_by + 1 THEN dN ELSE i)] :
        s2 \in {1, 2}, sN \in {paginate_by, paginate_by + 1},
        d2 \in {1, 2}, dN \in {paginate_by, paginate_by + 1}}

\* the searches of the visitor: every sort key, no filter
PageRequests == {[NoFilters EXCEPT !.sort_by = sb] : sb \in SORT_BY_CHOICES \cup {""}}

\* the visitor follows the page links of one search: every request sent so
\* far carries the query string GET
SameSearch(GET) == \A q \in DOMAIN inflight : inflight[q].pc # "waiting" => inflight[q].GET = GET

InitPage ==
    /\ now = 0
    /\ jobs \in PageStores \cup {<<>>}
    /\ applications = <<>>
    /\ event_logs = <<>>
    /\ subscriptions = <<>>
    /\ request = NoRequest
    /\ response = NoResponse
    /\ probe = NoProbe
    /\ inflight = [r \in Requests |-> Waiting]
    /\ cache = NoCache

NextPage ==
    \/ \E r \in Requests, GET \in PageRequests, number \in PageNumbers :
          SameSearch(GET) /\ JobListView_get(r, GET, <<number>>)
    \/ \E r \in Requests : JobListView_render(r)

SpecPage == InitPage /\ [][NextPage]_vars

\* the same paging while the admin closes the newest posting between the
\* statements of the requests
InitPageDrift ==
    /\ InitPage
    /\ jobs = [i \in PagePostings |-> PageJob(i, i, i)]

NextPageDrift ==
    \/ \E r \in Requests, number \in PageNumbers :
          SameSearch(NoFilters) /\ JobListView_get(r, NoFilters, <<number>>)
    \/ \E r \in Requests : JobListView_render(r)
    \/ JobOpeningAdmin_close_positions({paginate_by + 1})

SpecPageDrift == InitPageDrift /\ [][NextPageDrift]_vars

\* the pages of the listing, first to last, once the visitor has seen all
AllPages ==
    LET last == num_pages(Cardinality(filtered_queryset(jobs, request.GET, now, now)))
        RECURSIVE joined(_)
        joined(n) == IF n = 0 THEN <<>> ELSE joined(n - 1) \o SeenPages[n]
    IN  IF request.view = "job_list" /\ \A n \in 1..last : SeenPages[n] # None
        THEN <<joined(last)>> ELSE None

\* C24: no page holds more than 12 postings, and under every sort key the
\* pages of an unchanged store, taken together, hold every matching posting
\* exactly once.
C24_PagesPartitionTheListing ==
    /\ response.view = "job_list" => Len(response.jobs) <= 12
    /\ AllPages # None
          => LET all == AllPages[1]
                 matching == filtered_queryset(jobs, request.GET, now, now)
             IN  /\ Range(all) = matching
                 /\ Len(all) = Cardinality(matching)

(***************************************************************************)
(* views.py: CareersHomeView.get_context_data and the cache.  Each cached  *)
(* value is looked up, computed from the store on a miss, and written      *)
(* back.  The request is a sequence of steps: every cache.get, query and   *)
(* cache.set is a call of its own, no transaction spans them, and other    *)
(* requests run between them.  A query that raises (the database is locked *)
(* or unreachable) is an input of the step.  settings.py names no CACHES:  *)
(* the cache is the LocMemCache of the server process, shared by its       *)
(* threads.                                                                *)
(***************************************************************************)
\* a JobOpening row with the columns the home view reads
CacheJob(status, featured, remote, show_salary, smin) ==
    SearchJob(status, <<0>>, 0, 0, <<"A", "b">>, <<"p", "u", "n", "e">>, remote, "full_time",
              "mid", 1, smin, None, featured)
        @@ [show_salary |-> show_salary, reference_id |-> <<"JA", 1>>]

CacheJobs ==
    {CacheJob(status, featured, remote, show_salary, <<200000>>) :
        status \in {"open", "draft"}, featured \in BOOLEAN, remote \in BOOLEAN,
        show_salary \in BOOLEAN}

\* what becomes of the queries of serialize_jobs_for_cache: qs.values(...)
\* succeeds; it raises and the loop over qs[:limit] succeeds; both raise
SerializeOutcomes == {"values", "instances", "raises"}

\* serialize_jobs_for_cache for each listing of the queryset the database
\* may give: the dicts of qs.values(...)[:limit], the four-key dicts of the
\* except branch, or [] when the second query raises too
serialize_jobs_for_cache(rows, listings, limit, outcome) ==
    IF outcome = "values"
    THEN {[k \in DOMAIN Slice(p, limit) |->
             [id |-> p[k], title |-> rows[p[k]].title,
              reference_id |-> rows[p[k]].reference_id, location |-> rows[p[k]].location,
              posted_date |-> rows[p[k]].posted_date,
              published_date |-> rows[p[k]].published_date]] : p \in listings}
    ELSE IF outcome = "instances"
    THEN {[k \in DOMAIN Slice(p, limit) |->
             [id |-> p[k], title |-> rows[p[k]].title,
              reference_id |-> rows[p[k]].reference_id,
              location |-> rows[p[k]].location]] : p \in listings}
    ELSE {<<>>}

\* the featured jobs query: open, featured, published, newest first, six
featured_jobs_query(rows, t, outcome) ==
    LET S == {j \in DOMAIN rows :
                 /\ rows[j].status = "open" /\ rows[j].is_featured
                 /\ rows[j].published_date # None /\ rows[j].published_date[1] <= t}
        listings == {p \in Orderings(S) :
                        \A i, k \in DOMAIN p :
                            i < k => rows[p[i]].created_at >= rows[p[k]].created_at}
    IN  serialize_jobs_for_cache(rows, listings, 6, outcome)

\* Count('jobs', filter=Q(jobs__status='open'))
job_count(rows, category) ==
    Cardinality({j \in DOMAIN rows : rows[j].job_category = category
                                        /\ rows[j].status = "open"})

\* the categories query: active categories with open postings, the fullest
\* first, eight
categories_query(rows) ==
    LET S == {c \in ActiveCategories : job_count(rows, c) > 0}
        listings == {p \in Orderings(S) :
                        \A i, k \in DOMAIN p :
                            i < k => job_count(rows, p[i]) >= job_count(rows, p[k])}
    IN  {[k \in DOMAIN Slice(p, 8) |-> [id |-> p[k], job_count |-> job_count(rows, p[k])]] :
            p \in listings}

RECURSIVE SumOf(_, _)
SumOf(rows, S) ==
    IF S = {} THEN 0
    ELSE LET j == CHOOSE x \in S : TRUE
         IN  rows[j].salary_range_min[1] + SumOf(rows, S \ {j})

\* aggregate(Avg('salary_range_min')): NULLs are skipped; None without a
\* value.  The amounts of the model are equal, so the mean is whole.
Avg_salary_range_min(rows, S) ==
    LET valued == {j \in S : rows[j].salary_range_min # None}
    IN  IF valued = {} THEN None ELSE <<SumOf(rows, valued) \div Cardinality(valued)>>

\* the four queries of the stats dict, in the order the dict literal runs
\* them
StatsQueries == <<"total_openings", "total_applications", "avg_salary", "remote_jobs">>

\* the global stats queries
stats_query(rows, apps) ==
    [total_openings |-> Cardinality({j \in DOMAIN rows : rows[j].status = "open"}),
     total_applications |-> Cardinality(Stored(apps)),
     avg_salary |-> Avg_salary_range_min(rows, {j \in DOMAIN rows : rows[j].show_salary}),
     remote_jobs |-> Cardinality({j \in DOMAIN rows :
                                     rows[j].status = "open" /\ rows[j].is_remote_allowed})]

\* the values of the except branches
FallbackStats ==
    [total_openings |-> 0, total_applications |-> 0, avg_salary |-> None, remote_jobs |-> 0]

\* the stats dict before its first query has run
NoStats == [q \in {StatsQueries[n] : n \in DOMAIN StatsQueries} |-> None]

\* the request of the home page: where it stands and the values it holds
\* (a value is None until the request has it)
HomeRequest(pc, featured_jobs, categories, stats) ==
    [pc |-> pc, featured_jobs |-> featured_jobs, job_categories |-> categories,
     job_stats |-> stats]

\* no request under way: the next one starts with its first cache.get
HomeIdle == HomeRequest(<<"get", "featured_jobs">>, None, None, None)

\* the step after the one that settled the value of a key
after_key(key) ==
    CASE key = "featured_jobs" -> <<"get", "job_categories">>
      [] key = "job_categories" -> <<"get", "job_stats">>
      [] key = "job_stats" -> <<"respond">>

\* value = cache.get(key): on a hit the request holds the cached value, on a
\* miss it goes on to the query
CareersHomeView_cache_get(key) ==
    /\ inflight[1].pc = <<"get", key>>
    /\ inflight' = IF cache[key] # None
                   THEN <<[inflight[1] EXCEPT ![key] = cache[key], !.pc = after_key(key)]>>
                   ELSE <<[inflight[1] EXCEPT !.pc = <<"query", key>>]>>
    /\ UNCHANGED <<now, jobs, applications, event_logs, subscriptions, request, response,
                   probe, cache>>

\* the try block of the featured jobs: the queryset is evaluated inside
\* serialize_jobs_for_cache, which catches what the database raises
CareersHomeView_featured_jobs(outcome) ==
    /\ inflight[1].pc = <<"query", "featured_jobs">>
    /\ \E featured_jobs \in featured_jobs_query(jobs, now, outcome) :
          inflight' = <<[inflight[1] EXCEPT !.featured_jobs = <<featured_jobs>>,
                                            !.pc = <<"set", "featured_jobs">>]>>
    /\ UNCHANGED <<now, jobs, applications, event_logs, subscriptions, request, response,
                   probe, cache>>

\* the try block of the categories; except: categories = []
CareersHomeView_categories(query_ok) ==
    /\ inflight[1].pc = <<"query", "job_categories">>
    /\ \E categories \in IF query_ok THEN categories_query(jobs) ELSE {<<>>} :
          inflight' = <<[inflight[1] EXCEPT !.job_categories = <<categories>>,
                                            !.pc = <<"set", "job_categories">>]>>
    /\ UNCHANGED <<now, jobs, applications, event_logs, subscriptions, request, response,
                   probe, cache>>

\* the n-th query of the stats dict, each a statement of its own on the
\* store as it is then; except: stats = the dict of zeros
CareersHomeView_stats(n, query_ok) ==
    LET held == IF inflight[1].job_stats = None THEN NoStats ELSE inflight[1].job_stats[1]
        q == StatsQueries[n]
        stats == [held EXCEPT ![q] = stats_query(jobs, applications)[q]]
    IN  /\ inflight[1].pc = (IF n = 1 THEN <<"query", "job_stats">> ELSE <<"stats", n>>)
        /\ inflight' =
              IF ~query_ok
              THEN <<[inflight[1] EXCEPT !.job_stats = <<FallbackStats>>,
                                         !.pc = <<"set", "job_stats">>]>>
              ELSE <<[inflight[1] EXCEPT !.job_stats = <<stats>>,
                                         !.pc = IF n < Len(StatsQueries)
                                                THEN <<"stats", n + 1>>
                                                ELSE <<"set", "job_stats">>]>>
        /\ UNCHANGED <<now, jobs, applications, event_logs, subscriptions, request,
                       response, probe, cache>>

\* cache.set(key, value, timeout), after the try/except
CareersHomeView_cache_set(key) ==
    /\ inflight[1].pc = <<"set", key>>
    /\ cache' = [cache EXCEPT ![key] = inflight[1][key]]
    /\ inflight' = <<[inflight[1] EXCEPT !.pc = after_key(key)]>>
    /\ UNCHANGED <<now, jobs, applications, event_logs, subscriptions, request, response,
                   probe>>

\* the page is rendered from the values the request holds
CareersHomeView_get ==
    /\ inflight[1].pc = <<"respond">>
    /\ response' = [view |-> "home", status |-> 200, outcome |-> "ok",
                    featured_jobs |-> inflight[1].featured_jobs[1],
                    categories |-> inflight[1].job_categories[1],
                    stats |-> inflight[1].job_stats[1]]
    /\ inflight' = <<HomeIdle>>
    /\ UNCHANGED <<now, jobs, applications, event_logs, subscriptions, request, probe,
                   cache>>

\* the timeout of cache.set runs out
cache_expire(key) ==
    /\ cache[key] # None
    /\ cache' = [cache EXCEPT ![key] = None]
    /\ UNCHANGED <<now, jobs, applications, event_logs, subscriptions, request, response,
                   probe, inflight>>

\* JobOpeningAdmin.mark_as_featured: queryset.update(is_featured=True)
JobOpeningAdmin_mark_as_featured(selected) ==
    /\ selected # {} /\ selected \subseteq Stored(jobs)
    /\ jobs' = [j \in DOMAIN jobs |->
                   IF j \in selected THEN [jobs[j] EXCEPT !.is_featured = TRUE] ELSE jobs[j]]
    /\ request' = AdminRequest("mark_as_featured", selected)
    /\ response' = [view |-> "mark_as_featured", status |-> 302, outcome |-> "ok"]
    /\ UNCHANGED <<now, applications, event_logs, subscriptions, probe, inflight, cache>>

InitCache ==
    /\ now = 0
    /\ jobs \in [JobIds -> CacheJobs]
    /\ applications = <<>>
    /\ event_logs = <<>>
    /\ subscriptions = <<>>
    /\ request = NoRequest
    /\ response = NoResponse
    /\ probe = NoProbe
    /\ inflight = <<HomeIdle>>
    /\ cache = NoCache

NextCache ==
    \/ \E key \in CACHE_KEYS : CareersHomeView_cache_get(key)
    \/ \E outcome \in SerializeOutcomes : CareersHomeView_featured_jobs(outcome)
    \/ \E query_ok \in BOOLEAN : CareersHomeView_categories(query_ok)
    \/ \E n \in DOMAIN StatsQueries, query_ok \in BOOLEAN : CareersHomeView_stats(n, query_ok)
    \/ \E key \in CACHE_KEYS : CareersHomeView_cache_set(key)
    \/ CareersHomeView_get
    \/ \E key \in CACHE_KEYS : cache_expire(key)
    \/ \E sel \in SUBSET JobIds : JobOpeningAdmin_mark_as_featured(sel)
    \/ \E j \in JobIds, status \in {"open", "closed"}, all \in BOOLEAN :
          JobOpeningAdmin_change(j, [status |-> status],
                                 IF all THEN ApplicationsOf(applications, j) ELSE {})
    \/ \E j \in JobIds : JobApplicationAdmin_add(j, <<"a">>, "applied", "", "career_site")

SpecCache == InitCache /\ [][NextCache]_vars

\* what the store yields for a key at the time of a step, in either form
\* serialize_jobs_for_cache gives to a listing
StoreAggregates(key) ==
    CASE key = "featured_jobs" -> featured_jobs_query(jobs, now, "values")
                                     \cup featured_jobs_query(jobs, now, "instances")
      [] key = "job_categories" -> categories_query(jobs)
      [] key = "job_stats" -> {stats_query(jobs, applications)}
      [] OTHER -> {}

\* C30: every value a step writes to the cache is the aggregate the store
\* yields for that key at the time of the step.
C30_CacheWriteEqualsStoreAggregate ==
    [][\A key \in CACHE_KEYS :
          (cache'[key] # cache[key] /\ cache'[key] # None)
              => cache'[key][1] \in StoreAggregates(key)]_vars

(***************************************************************************)
(* Subscriptions: subscribe and confirm requests next to the views of      *)
(* JobAlertSubscriptionAdmin.  Its forms edit every column but created_at, *)
(* confirmation_token and last_notified (readonly_fields); the admin user  *)
(* is a superuser.  A deleted subscription leaves None at its index.       *)
(***************************************************************************)
\* the forms posted to the admin: the row as stored with one field edited
SubscriptionEdits ==
    {[email |-> e] : e \in Emails} \cup {[is_active |-> b] : b \in BOOLEAN}
        \cup {[is_confirmed |-> b] : b \in BOOLEAN} \cup {[frequency |-> "immediate"]}

SubscriptionAdminResponse(view, status, outcome, errors) ==
    [view |-> view, status |-> status, outcome |-> outcome, errors |-> errors, token |-> 0]

\* ModelAdmin.change_view of JobAlertSubscriptionAdmin: the ModelForm
\* validates (email unique, compared exactly, among the other rows) and
\* save_model stores the row
JobAlertSubscriptionAdmin_change(i, posted) ==
    LET row == [f \in DOMAIN subscriptions[i] |->
                   IF f \in DOMAIN posted THEN posted[f] ELSE subscriptions[i][f]]
    IN  /\ i \in Stored(subscriptions)
        /\ IF subscription_email_taken(row.email, subscriptions, i)
           THEN /\ response' = SubscriptionAdminResponse("subscription_change", 200,
                                                         "form_invalid", {"email_exists"})
                /\ UNCHANGED subscriptions
           ELSE /\ subscriptions' = [subscriptions EXCEPT ![i] = row]
                /\ response' = SubscriptionAdminResponse("subscription_change", 302, "ok", {})
        /\ UNCHANGED <<now, jobs, applications, event_logs, request, probe, inflight, cache>>

\* ModelAdmin.add_view of JobAlertSubscriptionAdmin: confirmation_token takes
\* its default, a fresh uuid4
JobAlertSubscriptionAdmin_add(email, frequency, active, confirmed) ==
    LET token == Len(subscriptions) + 1
        row == [NewSubscription(email, frequency, token)
                   EXCEPT !.is_active = active, !.is_confirmed = confirmed]
    IN  /\ IF subscription_email_taken(email, subscriptions, 0)
           THEN /\ response' = SubscriptionAdminResponse("subscription_add", 200,
                                                         "form_invalid", {"email_exists"})
                /\ UNCHANGED subscriptions
           ELSE /\ Len(subscriptions) + Cardinality(Validated) < MaxSubs
                /\ subscriptions' = Append(subscriptions, row)
                /\ response' = SubscriptionAdminResponse("subscription_add", 302, "ok", {})
        /\ UNCHANGED <<now, jobs, applications, event_logs, request, probe, inflight, cache>>

\* ModelAdmin.delete_view (one row) and the delete_selected action (the
\* ticked rows): a confirmation page first, the DELETE on the confirming POST
JobAlertSubscriptionAdmin_delete_selected(selected, confirmed) ==
    /\ selected # {} /\ selected \subseteq Stored(subscriptions)
    /\ IF confirmed
       THEN /\ subscriptions' = [i \in DOMAIN subscriptions |->
                                    IF i \in selected THEN None ELSE subscriptions[i]]
            /\ response' = SubscriptionAdminResponse("subscription_delete", 302, "ok", {})
       ELSE /\ response' = SubscriptionAdminResponse("subscription_delete", 200,
                                                     "confirmation", {})
            /\ UNCHANGED subscriptions
    /\ UNCHANGED <<now, jobs, applications, event_logs, request, probe, inflight, cache>>

\* one worker handles the public requests here; the admin views run between
\* its steps
NextSubscribe ==
    \/ \E e \in Emails, fields_ok \in BOOLEAN, xhr \in BOOLEAN :
          JobAlertSubscriptionView_post(1, e, "daily", fields_ok, xhr)
    \/ JobAlertSubscriptionForm_clean_email(1)
    \/ JobAlertSubscriptionForm_validate_unique(1)
    \/ JobAlertSubscriptionView_form_valid(1)
    \/ \E token \in 1..(MaxSubs + 1) : confirm_alert_subscription(1, token)
    \/ confirm_alert_subscription_save(1)
    \/ \E i \in 1..MaxSubs, posted \in SubscriptionEdits :
          JobAlertSubscriptionAdmin_change(i, posted)
    \/ \E e \in Emails, active \in BOOLEAN, confirmed \in BOOLEAN :
          JobAlertSubscriptionAdmin_add(e, "daily", active, confirmed)
    \/ \E selected \in SUBSET (1..MaxSubs), confirmed \in BOOLEAN :
          JobAlertSubscriptionAdmin_delete_selected(selected, confirmed)

SpecSubscribe == InitAlert /\ [][NextSubscribe]_vars

\* the active subscriptions whose address is the given one, ignoring case
ActiveMatches(subs, email) ==
    {i \in Stored(subs) : subs[i].is_active /\ iexact(subs[i].email, email)}

\* the step answers a subscribe request
SubscribeStep ==
    /\ \E w \in AlertWorkers : inflight[w].pc \in {"exists", "unique", "valid"}
                                   /\ inflight'[w].pc = "idle"
    /\ response'.view = "subscribe_alert" /\ request'.view = "subscribe_alert"

\* C27: no two subscriptions have the same address ignoring case; and a
\* subscribe request whose address matches an active subscription ignoring
\* case is rejected with the confirm-your-subscription error when that
\* subscription is unconfirmed and the already-subscribed error otherwise,
\* stores nothing and leaves every subscription, token included, as it was.
C27_OneSubscriptionPerAddress ==
    [][/\ \A i, k \in Stored(subscriptions') :
             iexact(subscriptions'[i].email, subscriptions'[k].email) => i = k
       /\ (SubscribeStep /\ ActiveMatches(subscriptions, request'.email) # {})
             => /\ response'.outcome \in {"form_invalid", "json_invalid"}
                /\ \A i \in ActiveMatches(subscriptions, request'.email) :
                      IF subscriptions[i].is_confirmed
                      THEN "already_subscribed" \in response'.errors
                      ELSE "confirm_existing" \in response'.errors
                /\ subscriptions' = subscriptions]_vars

(***************************************************************************)
(* The declared statuses of an application                                 *)
(***************************************************************************)
\* C28: in every reachable state the status of every stored application is
\* one of the 15 values of JobApplication.STATUS_CHOICES.
C28_StatusIsDeclared ==
    \A a \in Stored(applications) : applications[a].status \in APPLICATION_STATUS_CHOICES

====
